---- MODULE Spec2Model ----
(***************************************************************************)
(* Keyvault: client-side encrypted file sharing on top of a blob store.    *)
(*                                                                         *)
(* A JavaScript string is modelled as a sequence of character codes        *)
(* (Latin-1, 0..255), so that btoa/atob, split/join, replace and the URL   *)
(* functions are computed character by character as the code computes      *)
(* them.  A Uint8Array is a sequence of bytes.                             *)
(***************************************************************************)
EXTENDS Integers, Sequences, FiniteSets, TLC

VARIABLES
    codec,      \* the codec's last call (SpecCodec)
    locator,    \* the share locator's last call (SpecLocator)
    store,      \* the Store: Drive file id -> object
    now,        \* Date.now()
    uploads,    \* the uploadFileToDrive calls made so far, in order
    dl,         \* the last downloadFileFromDrive call: its run and its result
    served,     \* Drive file id -> number of downloads that returned the file
    card,       \* the state of the MyFilesCard component
    localStorage, \* the 'keyvault_keys' item: Drive file id -> key ("" when none)
    session,    \* the AuthProvider, google-auth's stored session, pending callbacks
    ui          \* the last attempt of a UI caller to download or to copy a link

vars ==
    <<codec, locator, store, now, uploads, dl, served, card, localStorage, session, ui>>

(***************************************************************************)
(* Characters and string literals of the source.                           *)
(***************************************************************************)
\* '_' : the delimiter of the file name format
Underscore == 95
\* '=' : base64 padding
PadChar == 61
\* ".encrypted"
EncryptedExt == <<46, 101, 110, 99, 114, 121, 112, 116, 101, 100>>

(***************************************************************************)
(* String primitives of the JavaScript runtime.                            *)
(***************************************************************************)
\* pat occurs in s at index i
Occurs(s, pat, i) ==
    /\ i + Len(pat) - 1 <= Len(s)
    /\ SubSeq(s, i, i + Len(pat) - 1) = pat

\* String.prototype.indexOf (1-based; 0 when absent)
IndexOf(s, pat) ==
    IF \E i \in 1..Len(s) : Occurs(s, pat, i)
    THEN CHOOSE i \in 1..Len(s) :
            Occurs(s, pat, i) /\ \A j \in 1..(i - 1) : ~Occurs(s, pat, j)
    ELSE 0

\* String.prototype.replace(pat, rep) with a string pattern: the FIRST
\* occurrence only.
ReplaceFirst(s, pat, rep) ==
    LET i == IndexOf(s, pat)
    IN  IF i = 0 THEN s
        ELSE SubSeq(s, 1, i - 1) \o rep \o SubSeq(s, i + Len(pat), Len(s))

\* String.prototype.split(c) for a one-character separator
RECURSIVE Split(_, _)
Split(s, c) ==
    IF \E i \in 1..Len(s) : s[i] = c
    THEN LET i == CHOOSE k \in 1..Len(s) :
                     s[k] = c /\ \A j \in 1..(k - 1) : s[j] # c
         IN  <<SubSeq(s, 1, i - 1)>> \o Split(SubSeq(s, i + 1, Len(s)), c)
    ELSE <<s>>

\* Array.prototype.join(c)
RECURSIVE Join(_, _)
Join(parts, c) ==
    IF Len(parts) = 0 THEN <<>>
    ELSE IF Len(parts) = 1 THEN parts[1]
    ELSE parts[1] \o <<c>> \o Join(Tail(parts), c)

\* Array.prototype.pop: the element removed and the array that is left
Pop(parts) ==
    [val |-> parts[Len(parts)], rest |-> SubSeq(parts, 1, Len(parts) - 1)]

(***************************************************************************)
(* btoa / atob: the standard base64 alphabet A-Z a-z 0-9 + / with '='      *)
(* padding.  atob follows the forgiving-base64 decoding of the HTML        *)
(* standard and fails (InvalidCharacterError) on anything else.            *)
(***************************************************************************)
B64Char(v) ==
    IF v < 26 THEN 65 + v
    ELSE IF v < 52 THEN 97 + (v - 26)
    ELSE IF v < 62 THEN 48 + (v - 52)
    ELSE IF v = 62 THEN 43
    ELSE 47

IsB64Char(c) ==
    \/ c \in 65..90
    \/ c \in 97..122
    \/ c \in 48..57
    \/ c = 43
    \/ c = 47

B64Value(c) ==
    IF c \in 65..90 THEN c - 65
    ELSE IF c \in 97..122 THEN c - 97 + 26
    ELSE IF c \in 48..57 THEN c - 48 + 52
    ELSE IF c = 43 THEN 62
    ELSE 63

RECURSIVE btoa(_)
btoa(s) ==
    IF Len(s) = 0 THEN <<>>
    ELSE IF Len(s) = 1
    THEN <<B64Char(s[1] \div 4), B64Char((s[1] % 4) * 16), PadChar, PadChar>>
    ELSE IF Len(s) = 2
    THEN <<B64Char(s[1] \div 4),
           B64Char((s[1] % 4) * 16 + (s[2] \div 16)),
           B64Char((s[2] % 16) * 4),
           PadChar>>
    ELSE <<B64Char(s[1] \div 4),
           B64Char((s[1] % 4) * 16 + (s[2] \div 16)),
           B64Char((s[2] % 16) * 4 + (s[3] \div 64)),
           B64Char(s[3] % 64)>> \o btoa(SubSeq(s, 4, Len(s)))

IsAsciiWhitespace(c) == c \in {9, 10, 12, 13, 32}

\* the data characters of an atob argument: whitespace removed, then one or
\* two trailing '=' removed when the length is a multiple of four
B64Data(s) ==
    LET t == SelectSeq(s, LAMBDA c : ~IsAsciiWhitespace(c))
        n == Len(t)
    IN  IF n > 0 /\ n % 4 = 0 /\ t[n] = PadChar
        THEN IF t[n - 1] = PadChar THEN SubSeq(t, 1, n - 2)
             ELSE SubSeq(t, 1, n - 1)
        ELSE t

RECURSIVE B64DecodeData(_)
B64DecodeData(d) ==
    IF Len(d) < 2 THEN <<>>
    ELSE LET a == B64Value(d[1])
             b == B64Value(d[2])
         IN  IF Len(d) = 2 THEN <<a * 4 + (b \div 16)>>
             ELSE LET c == B64Value(d[3])
                  IN  IF Len(d) = 3
                      THEN <<a * 4 + (b \div 16), (b % 16) * 16 + (c \div 4)>>
                      ELSE <<a * 4 + (b \div 16),
                             (b % 16) * 16 + (c \div 4),
                             (c % 4) * 64 + B64Value(d[4])>>
                           \o B64DecodeData(SubSeq(d, 5, Len(d)))

\* atob: [ok |-> TRUE, v |-> the binary string] or ok = FALSE when it throws
atob(s) ==
    LET Decode(d) ==
            IF Len(d) % 4 = 1 \/ \E i \in 1..Len(d) : ~IsB64Char(d[i])
            THEN [ok |-> FALSE, v |-> <<>>]
            ELSE [ok |-> TRUE, v |-> B64DecodeData(d)]
    IN  Decode(B64Data(s))

\* uint8ArrayToBase64: every byte becomes the character of that code
uint8ArrayToBase64(arr) == btoa(arr)

\* base64ToUint8Array: throws when atob throws
base64ToUint8Array(base64) == atob(base64)

(***************************************************************************)
(* JavaScript values, JSON.stringify and JSON.parse.                       *)
(*                                                                         *)
(* A value is [t, n, m]: t its type tag, n the number of a "num", m the    *)
(* members <<[k, v], ...>> of an "obj" in insertion order.  The JSON       *)
(* grammar covered is the one of a Policies object: null, true, false,     *)
(* non-negative integers, and flat objects of such values with plain       *)
(* keys, without whitespace.  Every text the model feeds to JSONparse is   *)
(* either in this grammar or is no JSON at all.                            *)
(***************************************************************************)
Undefined == [t |-> "undefined", n |-> 0, m |-> <<>>]
JNull == [t |-> "null", n |-> 0, m |-> <<>>]
JTrue == [t |-> "true", n |-> 0, m |-> <<>>]
JFalse == [t |-> "false", n |-> 0, m |-> <<>>]
JNum(k) == [t |-> "num", n |-> k, m |-> <<>>]
JObj(members) == [t |-> "obj", n |-> 0, m |-> members]

\* "true", "false", "null"
TrueLit == <<116, 114, 117, 101>>
FalseLit == <<102, 97, 108, 115, 101>>
NullLit == <<110, 117, 108, 108>>
\* the property names of Policies
KeyExpiresAt == <<101, 120, 112, 105, 114, 101, 115, 65, 116>>
KeyMaxDownloads == <<109, 97, 120, 68, 111, 119, 110, 108, 111, 97, 100, 115>>
KeySelfDestruct == <<115, 101, 108, 102, 68, 101, 115, 116, 114, 117, 99, 116>>

\* v.key: the value of the last member named key, undefined when there is none
\* (v is not null or undefined: reading a property of those throws)
Get(v, key) ==
    LET idx == {i \in 1..Len(v.m) : v.m[i].k = key}
    IN  IF idx = {} THEN Undefined
        ELSE v.m[CHOOSE i \in idx : \A j \in idx : j <= i].v

\* reading a property of null or undefined throws a TypeError
CanReadProperty(v) == v.t \notin {"null", "undefined"}

\* ToBoolean
Truthy(v) == v.t \in {"true", "obj"} \/ (v.t = "num" /\ v.n # 0)

\* x > v for a number x: v is converted with ToNumber (an object gives NaN,
\* and every comparison with NaN is false)
NumberGreaterThan(x, v) ==
    \/ v.t = "num" /\ x > v.n
    \/ v.t = "true" /\ x > 1
    \/ v.t \in {"false", "null"} /\ x > 0

\* two values are the same JSON document: same members with a value (the
\* order of the members and members that are undefined do not count)
SameJson(a, b) ==
    /\ a.t = b.t
    /\ a.n = b.n
    /\ \A key \in {a.m[i].k : i \in 1..Len(a.m)} \cup {b.m[i].k : i \in 1..Len(b.m)} :
          Get(a, key) = Get(b, key)

RECURSIVE Digits(_)
Digits(n) ==
    IF n < 10 THEN <<48 + n>> ELSE Digits(n \div 10) \o <<48 + (n % 10)>>

StringifyScalar(v) ==
    CASE v.t = "num" -> Digits(v.n)
      [] v.t = "true" -> TrueLit
      [] v.t = "false" -> FalseLit
      [] OTHER -> NullLit

\* the members "key":value joined by ','; a member whose value is undefined
\* is left out
RECURSIVE StringifyMembers(_)
StringifyMembers(m) ==
    LET kept == SelectSeq(m, LAMBDA e : e.v.t # "undefined")
    IN  IF Len(kept) = 0 THEN <<>>
        ELSE LET one == <<34>> \o kept[1].k \o <<34, 58>> \o StringifyScalar(kept[1].v)
             IN  IF Len(kept) = 1 THEN one
                 ELSE one \o <<44>> \o StringifyMembers(Tail(kept))

JSONstringify(v) ==
    IF v.t = "obj" THEN <<123>> \o StringifyMembers(v.m) \o <<125>>
    ELSE StringifyScalar(v)

IsDigit(c) == c \in 48..57

\* the index after the run of digits that starts at i
RECURSIVE DigitsEnd(_, _)
DigitsEnd(s, i) ==
    IF i <= Len(s) /\ IsDigit(s[i]) THEN DigitsEnd(s, i + 1) ELSE i

\* the number written by the digits s[i..j]
RECURSIVE NumValue(_, _, _)
NumValue(s, i, j) ==
    IF j < i THEN 0 ELSE NumValue(s, i, j - 1) * 10 + (s[j] - 48)

ParseFail == [ok |-> FALSE, v |-> Undefined, next |-> 0]

ParseScalarAt(s, i) ==
    IF Occurs(s, TrueLit, i) THEN [ok |-> TRUE, v |-> JTrue, next |-> i + 4]
    ELSE IF Occurs(s, FalseLit, i) THEN [ok |-> TRUE, v |-> JFalse, next |-> i + 5]
    ELSE IF Occurs(s, NullLit, i) THEN [ok |-> TRUE, v |-> JNull, next |-> i + 4]
    ELSE IF i <= Len(s) /\ IsDigit(s[i])
    THEN LET j == DigitsEnd(s, i)
         IN  IF s[i] = 48 /\ j > i + 1 THEN ParseFail
             ELSE [ok |-> TRUE, v |-> JNum(NumValue(s, i, j - 1)), next |-> j]
    ELSE ParseFail

\* the members of an object, from the '"' expected at i up to the closing '}'
RECURSIVE ParseMembers(_, _, _)
ParseMembers(s, i, acc) ==
    IF ~(i <= Len(s) /\ s[i] = 34) THEN ParseFail
    ELSE LET rest == SubSeq(s, i + 1, Len(s))
             q == IndexOf(rest, <<34>>)
         IN  IF q = 0 \/ ~(i + q + 1 <= Len(s) /\ s[i + q + 1] = 58) THEN ParseFail
             ELSE LET Member(key, val) ==
                          IF ~val.ok THEN ParseFail
                          ELSE IF val.next < Len(s) /\ s[val.next] = 44
                          THEN ParseMembers(s, val.next + 1,
                                            Append(acc, [k |-> key, v |-> val.v]))
                          ELSE IF val.next = Len(s) /\ s[val.next] = 125
                          THEN [ok |-> TRUE,
                                v |-> JObj(Append(acc, [k |-> key, v |-> val.v])),
                                next |-> Len(s) + 1]
                          ELSE ParseFail
                  IN  Member(SubSeq(rest, 1, q - 1), ParseScalarAt(s, i + q + 2))

\* JSON.parse: [ok |-> TRUE, v |-> the value] or ok = FALSE when it throws
JSONparse(s) ==
    IF Len(s) >= 2 /\ s[1] = 123
    THEN IF s = <<123, 125>> THEN [ok |-> TRUE, v |-> JObj(<<>>), next |-> 3]
         ELSE ParseMembers(s, 2, <<>>)
    ELSE LET Whole(r) == IF r.ok /\ r.next = Len(s) + 1 THEN r ELSE ParseFail
         IN  Whole(ParseScalarAt(s, 1))

(***************************************************************************)
(* The file name codec.                                                    *)
(***************************************************************************)
encodeMetadataInFilename(originalName, salt, iv, policies) ==
    LET saltB64 == uint8ArrayToBase64(salt)
        ivB64 == uint8ArrayToBase64(iv)
        policiesB64 == btoa(JSONstringify(policies))
    IN  originalName \o <<Underscore>> \o saltB64 \o <<Underscore>> \o ivB64
            \o <<Underscore>> \o policiesB64 \o EncryptedExt

\* the null result of the decoder
NullInfo ==
    [isNull |-> TRUE, originalName |-> <<>>, salt |-> <<>>, iv |-> <<>>,
     policies |-> Undefined]

\* the name with ".encrypted" removed, as the decoder removes it
WithoutExt(filename) == ReplaceFirst(filename, EncryptedExt, <<>>)

\* atob, then JSON.parse, of the policy segment; ok = FALSE when either throws
ParsePolicies(policiesB64) ==
    LET Parsed(j) == [ok |-> j.ok, v |-> j.v]
        Decoded(a) ==
            IF ~a.ok THEN [ok |-> FALSE, v |-> Undefined] ELSE Parsed(JSONparse(a.v))
    IN  Decoded(atob(policiesB64))

decodeMetadataFromFilename_SwapSaltIv(filename) ==
    LET Decoded(parts) ==
            IF Len(parts) < 4 THEN NullInfo
            ELSE LET p1 == Pop(parts)
                     p2 == Pop(p1.rest)
                     p3 == Pop(p2.rest)
                     policiesB64 == p1.val
                     ivB64 == p3.val
                     saltB64 == p2.val
                     originalName == Join(p3.rest, Underscore)
                     Parsed(pol) ==
                         IF ~pol.ok THEN NullInfo
                         ELSE [isNull |-> FALSE,
                               originalName |-> originalName,
                               salt |-> saltB64,
                               iv |-> ivB64,
                               policies |-> pol.v]
                 IN  Parsed(ParsePolicies(policiesB64))
    IN  Decoded(Split(WithoutExt(filename), Underscore))

decodeMetadataFromFilename_Min3(filename) ==
    LET Decoded(parts) ==
            IF Len(parts) < 3 THEN NullInfo
            ELSE LET p1 == Pop(parts)
                     p2 == Pop(p1.rest)
                     p3 == Pop(p2.rest)
                     policiesB64 == p1.val
                     ivB64 == p2.val
                     saltB64 == p3.val
                     originalName == Join(p3.rest, Underscore)
                     Parsed(pol) ==
                         IF ~pol.ok THEN NullInfo
                         ELSE [isNull |-> FALSE,
                               originalName |-> originalName,
                               salt |-> saltB64,
                               iv |-> ivB64,
                               policies |-> pol.v]
                 IN  Parsed(ParsePolicies(policiesB64))
    IN  Decoded(Split(WithoutExt(filename), Underscore))

decodeMetadataFromFilename(filename) ==
    LET Decoded(parts) ==
            IF Len(parts) < 4 THEN NullInfo
            ELSE LET p1 == Pop(parts)
                     p2 == Pop(p1.rest)
                     p3 == Pop(p2.rest)
                     policiesB64 == p1.val
                     ivB64 == p2.val
                     saltB64 == p3.val
                     originalName == Join(p3.rest, Underscore)
                     Parsed(pol) ==
                         IF ~pol.ok THEN NullInfo
                         ELSE [isNull |-> FALSE,
                               originalName |-> originalName,
                               salt |-> saltB64,
                               iv |-> ivB64,
                               policies |-> pol.v]
                 IN  Parsed(ParsePolicies(policiesB64))
    IN  Decoded(Split(WithoutExt(filename), Underscore))

(***************************************************************************)
(* Inputs of the codec.                                                    *)
(***************************************************************************)
\* new Uint8Array(16), new Uint8Array(12)
SaltLen == 16
IvLen == 12

\* salts and nonces that crypto.getRandomValues can produce; the second salt
\* and nonce encode to base64 text with '+' and '/'
Salts ==
    {[i \in 1..SaltLen |-> 0],
     [i \in 1..SaltLen |-> IF i % 3 = 0 THEN 255 ELSE 251]}
Ivs ==
    {[i \in 1..IvLen |-> i],
     [i \in 1..IvLen |-> IF i % 3 = 1 THEN 255 ELSE 239]}

\* "h.txt", "a_b", "", "_", "n.encrypted"
OriginalNames ==
    {<<104, 46, 116, 120, 116>>,
     <<97, 95, 98>>,
     <<>>,
     <<95>>,
     <<110, 46, 101, 110, 99, 114, 121, 112, 116, 101, 100>>}

\* the latest timestamp of the model
MaxTime == 2

\* Policies objects: {}, {expiresAt: T}, {maxDownloads: 1},
\* {expiresAt: T, maxDownloads: 1, selfDestruct: true}
PolicyObjects ==
    {JObj(<<>>), JObj(<<[k |-> KeyMaxDownloads, v |-> JNum(1)]>>)}
    \cup {JObj(<<[k |-> KeyExpiresAt, v |-> JNum(T)]>>) : T \in 0..MaxTime}
    \cup {JObj(<<[k |-> KeyExpiresAt, v |-> JNum(T)],
                 [k |-> KeyMaxDownloads, v |-> JNum(1)],
                 [k |-> KeySelfDestruct, v |-> JTrue]>>) : T \in 1..MaxTime}

\* the longest foreign name, in '_'-separated segments
MaxSegments == 5

\* segments of names that the Store can hold without the encoder having
\* written them: "a", "", "e30=" (base64 of "{}"), "!" (no base64)
ForeignSegments ==
    {<<97>>, <<>>, <<101, 51, 48, 61>>, <<33>>}

\* "short_string", and names whose policy segment is base64 of "null", of
\* "{" and of "{}" behind a name with ".encrypted" in it, and
\* "x_AAAA_AAAA_e30=.encrypted" (salt and nonce of three zero bytes each)
ExtraNames ==
    {<<115, 104, 111, 114, 116, 95, 115, 116, 114, 105, 110, 103>>,
     <<97, 95, 98, 95, 99, 95>> \o btoa(NullLit) \o EncryptedExt,
     <<97, 95, 98, 95, 99, 95>> \o btoa(<<123>>) \o EncryptedExt,
     <<97>> \o EncryptedExt \o <<95, 98, 95, 99, 95>> \o btoa(<<123, 125>>),
     <<120, 95, 65, 65, 65, 65, 95, 65, 65, 65, 65, 95>> \o btoa(<<123, 125>>)
         \o EncryptedExt}

ForeignNames ==
    ExtraNames \cup
    {Join(segs, Underscore) \o ext :
        segs \in UNION {[1..n -> ForeignSegments] : n \in 1..MaxSegments},
        ext \in {<<>>, EncryptedExt}}

(***************************************************************************)
(* The codec as a state machine: codec holds the last call of the encoder  *)
(* (its arguments and the name it returned) or a name found in the Store,  *)
(* and, once decoded, the decoder's result.                                *)
(***************************************************************************)
CodecIdle ==
    [op |-> "idle", src |-> "none", originalName |-> <<>>, salt |-> <<>>,
     iv |-> <<>>, policies |-> Undefined, filename |-> <<>>, info |-> NullInfo]


\* encodeMetadataInFilename is called
CodecEncode ==
    /\ codec.op = "idle"
    /\ \E originalName \in OriginalNames, salt \in Salts, iv \in Ivs,
          policies \in PolicyObjects :
        codec' = [op |-> "encoded", src |-> "encoder",
                  originalName |-> originalName, salt |-> salt, iv |-> iv,
                  policies |-> policies,
                  filename |-> encodeMetadataInFilename(originalName, salt, iv, policies),
                  info |-> NullInfo]
    /\ UNCHANGED <<locator, store, now, uploads, dl, served, card, localStorage, session, ui>>

\* a name that the encoder did not write is read from the Store
CodecForeign ==
    /\ codec.op = "idle"
    /\ \E filename \in ForeignNames :
        codec' = [CodecIdle EXCEPT !.op = "named", !.src = "store",
                                   !.filename = filename]
    /\ UNCHANGED <<locator, store, now, uploads, dl, served, card, localStorage, session, ui>>

\* decodeMetadataFromFilename is called on the name
CodecDecode ==
    /\ codec.op \in {"encoded", "named"}
    /\ codec' = [codec EXCEPT !.op = "decoded",
                              !.info = decodeMetadataFromFilename(codec.filename)]
    /\ UNCHANGED <<locator, store, now, uploads, dl, served, card, localStorage, session, ui>>

(***************************************************************************)
(* Properties of the codec (checked under SpecCodec).                      *)
(***************************************************************************)
\* C1: decoding a name that encodeMetadataInFilename produced is never null
\* and gives back the original name, the bytes of the salt and of the nonce
\* and the policy, whatever the original name is.
CodecRoundTrip ==
    (codec.op = "decoded" /\ codec.src = "encoder") =>
        /\ ~codec.info.isNull
        /\ codec.info.originalName = codec.originalName
        /\ base64ToUint8Array(codec.info.salt) = [ok |-> TRUE, v |-> codec.salt]
        /\ base64ToUint8Array(codec.info.iv) = [ok |-> TRUE, v |-> codec.iv]
        /\ SameJson(codec.info.policies, codec.policies)

\* C9: of a name with at least four '_'-separated segments (once the decoder
\* has taken ".encrypted" out) the decoder reads the last segment as the
\* policy, and what it returns has the second-to-last segment as nonce, the
\* third-to-last as salt and the earlier segments, rejoined with '_' in
\* their order, as original name.
DecodeTieBreak ==
    codec.op = "decoded" =>
        LET parts == Split(WithoutExt(codec.filename), Underscore)
            n == Len(parts)
        IN  n >= 4 =>
                /\ codec.info.isNull <=> ~ParsePolicies(parts[n]).ok
                /\ ~codec.info.isNull =>
                      /\ codec.info.policies = ParsePolicies(parts[n]).v
                      /\ codec.info.iv = parts[n - 1]
                      /\ codec.info.salt = parts[n - 2]
                      /\ codec.info.originalName
                            = Join(SubSeq(parts, 1, n - 3), Underscore)

\* C9 witness: a name of five segments, three of them different, decoded to
\* a result whose original name contains the delimiter
DecodeTieBreakWitness ==
    /\ codec.op = "decoded"
    /\ ~codec.info.isNull
    /\ Len(Split(WithoutExt(codec.filename), Underscore)) = 5
    /\ codec.info.salt # codec.info.iv
    /\ \E i \in 1..Len(codec.info.originalName) :
          codec.info.originalName[i] = Underscore

(***************************************************************************)
(* Web Crypto.  PBKDF2 and AES-GCM are modelled as ideal primitives: a     *)
(* derived key is the pair it was derived from, and a ciphertext opens     *)
(* only under the key and nonce that sealed it and only while none of its  *)
(* bits (data or tag) is changed.  flips is the set of bit positions that  *)
(* differ from what encrypt returned.                                      *)
(***************************************************************************)
deriveKey(password, salt) == [password |-> password, salt |-> salt]

AesGcmEncrypt(cryptoKey, iv, data) ==
    [sealed |-> TRUE, key |-> cryptoKey, iv |-> iv, data |-> data, flips |-> {}]

\* bytes that no encrypt call returned
RawBytes ==
    [sealed |-> FALSE, key |-> deriveKey(<<>>, <<>>), iv |-> <<>>, data |-> <<>>,
     flips |-> {}]

\* crypto.subtle.decrypt: the plaintext, or ok = FALSE when it rejects
\* (OperationError)
AesGcmDecrypt(cryptoKey, iv, encryptedData) ==
    IF /\ encryptedData.sealed
       /\ encryptedData.flips = {}
       /\ encryptedData.key = cryptoKey
       /\ encryptedData.iv = iv
    THEN [ok |-> TRUE, v |-> encryptedData.data]
    ELSE [ok |-> FALSE, v |-> <<>>]

encryptFile_FixedIv(file, userKey, rnd) ==
    LET salt == rnd.salt
        iv == [i \in 1..IvLen |-> 0]
        cryptoKey == deriveKey(userKey, salt)
    IN  [encryptedData |-> AesGcmEncrypt(cryptoKey, iv, file.bytes),
         salt |-> salt, iv |-> iv]

\* encryptFile; rnd is what the two crypto.getRandomValues calls return
encryptFile(file, userKey, rnd) ==
    LET salt == rnd.salt
        iv == rnd.iv
        cryptoKey == deriveKey(userKey, salt)
    IN  [encryptedData |-> AesGcmEncrypt(cryptoKey, iv, file.bytes),
         salt |-> salt, iv |-> iv]

ErrDecryption == "Decryption failed. Invalid key or corrupted data."

decryptFile_NoCatch(encryptedData, userKey, salt, iv) ==
    LET cryptoKey == deriveKey(userKey, salt)
        r == AesGcmDecrypt(cryptoKey, iv, encryptedData)
    IN  IF r.ok THEN [ok |-> TRUE, v |-> r.v, error |-> ""]
        ELSE [ok |-> FALSE, v |-> <<>>,
              error |-> "OperationError"]

\* decryptFile: the plaintext, or the error it throws
decryptFile(encryptedData, userKey, salt, iv) ==
    LET cryptoKey == deriveKey(userKey, salt)
        r == AesGcmDecrypt(cryptoKey, iv, encryptedData)
    IN  IF r.ok THEN [ok |-> TRUE, v |-> r.v, error |-> ""]
        ELSE [ok |-> FALSE, v |-> <<>>, error |-> ErrDecryption]

(***************************************************************************)
(* The Store (Google Drive) and the inputs of the protocol.                *)
(***************************************************************************)
\* "f1", "f2": Drive file ids
Id1 == <<102, 49>>
Id2 == <<102, 50>>
DriveIds == {Id1, Id2}

NoObject == [exists |-> FALSE, name |-> <<>>, bytes |-> RawBytes, description |-> <<>>]

\* "fd": the id of the Keyvault folder
FolderId == <<102, 100>>

\* "iron-sparrow-echo", "wolf-dawn"
Secrets ==
    {<<105, 114, 111, 110, 45, 115, 112, 97, 114, 114, 111, 119, 45, 101, 99, 104, 111>>,
     <<119, 111, 108, 102, 45, 100, 97, 119, 110>>}

\* "h.txt" with bytes "he", "a_b" empty, "n.encrypted" with one byte
Files ==
    {[name |-> <<104, 46, 116, 120, 116>>, bytes |-> <<104, 101>>],
     [name |-> <<97, 95, 98>>, bytes |-> <<>>],
     [name |-> <<110, 46, 101, 110, 99, 114, 121, 112, 116, 101, 100>>, bytes |-> <<7>>]}

\* what crypto.getRandomValues gives one encryptFile call
RandomDraws == [salt : Salts, iv : Ivs]

\* the policies of the uploads: {}, {expiresAt: 0}, {expiresAt: 1},
\* {maxDownloads: 1}, {selfDestruct: true}
UploadPolicies ==
    {JObj(<<>>),
     JObj(<<[k |-> KeyExpiresAt, v |-> JNum(0)]>>),
     JObj(<<[k |-> KeyExpiresAt, v |-> JNum(1)]>>),
     JObj(<<[k |-> KeyMaxDownloads, v |-> JNum(1)]>>),
     JObj(<<[k |-> KeySelfDestruct, v |-> JTrue]>>)}

(***************************************************************************)
(* uploadFileToDrive.                                                      *)
(***************************************************************************)
\* window.location.origin: "https://keyvault.app"
Origin ==
    <<104, 116, 116, 112, 115, 58, 47, 47, 107, 101, 121, 118, 97, 117, 108, 116,
      46, 97, 112, 112>>
\* "/f/" and "#key="
RoutePrefix == <<47, 102, 47>>
KeyFragment == <<35, 107, 101, 121, 61>>
\* "Keyvault encrypted file - Key hint: " and "..."
KeyHintText ==
    <<75, 101, 121, 118, 97, 117, 108, 116, 32, 101, 110, 99, 114, 121, 112, 116,
      101, 100, 32, 102, 105, 108, 101, 32, 45, 32, 75, 101, 121, 32, 104, 105,
      110, 116, 58, 32>>
Ellipsis == <<46, 46, 46>>
\* the length of the key hint: humanKey.substring(0, 4)
KeyHintLen == 4

\* String.prototype.substring(0, n)
Prefix(s, n) == SubSeq(s, 1, IF Len(s) < n THEN Len(s) ELSE n)

\* the metadata part of the multipart upload request
UploadMetadata(filename, humanKey, folderId) ==
    [name |-> filename,
     description |-> KeyHintText \o Prefix(humanKey, KeyHintLen) \o Ellipsis,
     parents |-> folderId]

\* the share URL that uploadFileToDrive returns
UploadShareUrl(driveFileId, humanKey) ==
    Origin \o RoutePrefix \o driveFileId \o KeyFragment \o humanKey

ErrUpload == "Upload failed: "
ErrPermission ==
    "Failed to make file public. Please sign out and sign in again with full Drive permissions, or manually share the file in Google Drive."

uploadFileToDrive_IgnorePermission(file, humanKey, policies, rnd, env) ==
    LET enc == encryptFile(file, humanKey, rnd)
        filename == encodeMetadataInFilename(file.name, enc.salt, enc.iv, policies)
        metadata == UploadMetadata(filename, humanKey, env.folderId)
        request == [metadata |-> metadata, body |-> enc.encryptedData]
        Outcome(base) ==
            IF ~env.putOk THEN [base EXCEPT !.error = ErrUpload]
            ELSE [base EXCEPT !.status = "ok",
                              !.shareUrl = UploadShareUrl(env.driveFileId, humanKey)]
    IN  Outcome([request |-> request, salt |-> enc.salt, iv |-> enc.iv,
                 stored |-> env.putOk, driveFileId |-> env.driveFileId,
                 status |-> "error", error |-> "", shareUrl |-> <<>>])

\* One call.  rnd: the random salt and nonce; env: what the Store answers:
\* folderId (<<>> when the folder lookup gave none), putOk and the id of the
\* new object, permOk.  request is the put request sent; stored says whether
\* the Store created the object.
uploadFileToDrive(file, humanKey, policies, rnd, env) ==
    LET enc == encryptFile(file, humanKey, rnd)
        filename == encodeMetadataInFilename(file.name, enc.salt, enc.iv, policies)
        metadata == UploadMetadata(filename, humanKey, env.folderId)
        request == [metadata |-> metadata, body |-> enc.encryptedData]
        Outcome(base) ==
            IF ~env.putOk THEN [base EXCEPT !.error = ErrUpload]
            ELSE IF ~env.permOk THEN [base EXCEPT !.error = ErrPermission]
            ELSE [base EXCEPT !.status = "ok",
                              !.shareUrl = UploadShareUrl(env.driveFileId, humanKey)]
    IN  Outcome([request |-> request, salt |-> enc.salt, iv |-> enc.iv,
                 stored |-> env.putOk, driveFileId |-> env.driveFileId,
                 status |-> "error", error |-> "", shareUrl |-> <<>>])

(***************************************************************************)
(* downloadFileFromDrive, step by step.  A run is the state of one call:   *)
(* status "running" until it returns ("ok") or throws ("error"), events    *)
(* the Store requests and crypto calls it has made, in order.              *)
(***************************************************************************)
ErrNotInDrive == "File not found in your Drive."
ErrNotPublic ==
    "File not found or not publicly accessible. The file owner needs to make it public."
ErrInvalidFormat == "Invalid file format - metadata could not be parsed from filename"
ErrExpired == "File has expired"
ErrDownload == "Failed to download file. The file may not be publicly accessible."

DlNone ==
    [status |-> "none", error |-> "", driveFileId |-> <<>>, humanKey |-> <<>>,
     auth |-> FALSE, observed |-> 0, events |-> <<>>, responses |-> <<>>,
     name |-> <<>>,
     fileInfo |-> NullInfo, checkedAt |-> -1, encryptedData |-> RawBytes,
     file |-> <<>>, filename |-> <<>>, policies |-> Undefined]

Throw(run, error) == [run EXCEPT !.status = "error", !.error = error]

FetchMetadata_RetryWithToken(run, fails) ==
    LET exists == store[run.driveFileId].exists
        ok1 == exists /\ fails < 1
        retry == ~ok1
        ok2 == exists /\ fails < 2
        ok == IF retry THEN ok2 ELSE ok1
        sent == IF retry THEN <<"getMetadata", "getMetadataAllDrives">>
                ELSE <<"getMetadata">>
        r == [run EXCEPT !.events = @ \o sent,
                         !.responses = @ \o IF retry THEN <<ok1, ok2>> ELSE <<ok1>>]
    IN  IF ~ok THEN Throw(r, IF run.auth THEN ErrNotInDrive ELSE ErrNotPublic)
        ELSE [r EXCEPT !.name = store[run.driveFileId].name]

\* 1. Get file metadata.  fails: how many of the get-metadata requests of
\* this call the Store answers with a non-success status
FetchMetadata(run, fails) ==
    LET exists == store[run.driveFileId].exists
        ok1 == exists /\ fails < 1
        retry == ~ok1 /\ ~run.auth
        ok2 == exists /\ fails < 2
        ok == IF retry THEN ok2 ELSE ok1
        sent == IF retry THEN <<"getMetadata", "getMetadataAllDrives">>
                ELSE <<"getMetadata">>
        r == [run EXCEPT !.events = @ \o sent,
                         !.responses = @ \o IF retry THEN <<ok1, ok2>> ELSE <<ok1>>]
    IN  IF ~ok THEN Throw(r, IF run.auth THEN ErrNotInDrive ELSE ErrNotPublic)
        ELSE [r EXCEPT !.name = store[run.driveFileId].name]

\* 2. Parse metadata from filename
ParseFilename(run) ==
    IF run.status # "running" THEN run
    ELSE LET Parsed(fileInfo) ==
                 LET r == [run EXCEPT !.events = Append(@, "decode"),
                                      !.fileInfo = fileInfo]
                 IN  IF fileInfo.isNull THEN Throw(r, ErrInvalidFormat) ELSE r
         IN  Parsed(decodeMetadataFromFilename(run.name))

\* fileInfo.policies.expiresAt && Date.now() > fileInfo.policies.expiresAt
PolicyExpired(policies, t) ==
    /\ Truthy(Get(policies, KeyExpiresAt))
    /\ NumberGreaterThan(t, Get(policies, KeyExpiresAt))

CheckPolicies_NoThrow(run) ==
    IF run.status # "running" THEN run
    ELSE [run EXCEPT !.events = Append(@, "policy"), !.checkedAt = now]

\* 3. Check policies client-side
CheckPolicies(run) ==
    IF run.status # "running" THEN run
    ELSE LET r == [run EXCEPT !.events = Append(@, "policy"), !.checkedAt = now]
         IN  IF ~CanReadProperty(run.fileInfo.policies) THEN Throw(r, "TypeError")
             ELSE IF PolicyExpired(run.fileInfo.policies, now) THEN Throw(r, ErrExpired)
             ELSE r

FetchBytes_MetadataMessage(run, fails) ==
    IF run.status # "running" THEN run
    ELSE LET exists == store[run.driveFileId].exists
             ok1 == exists /\ fails < 1
             retry == ~ok1 /\ ~run.auth
             ok2 == exists /\ fails < 2
             ok == IF retry THEN ok2 ELSE ok1
             sent == IF retry THEN <<"getBytes", "getBytesAllDrives">>
                     ELSE <<"getBytes">>
             r == [run EXCEPT !.events = @ \o sent,
                              !.responses = @ \o IF retry THEN <<ok1, ok2>>
                                                 ELSE <<ok1>>]
         IN  IF ~ok THEN Throw(r, IF run.auth THEN ErrNotInDrive ELSE ErrNotPublic)
             ELSE [r EXCEPT !.encryptedData = store[run.driveFileId].bytes]

\* 4. Download encrypted file
FetchBytes(run, fails) ==
    IF run.status # "running" THEN run
    ELSE LET exists == store[run.driveFileId].exists
             ok1 == exists /\ fails < 1
             retry == ~ok1 /\ ~run.auth
             ok2 == exists /\ fails < 2
             ok == IF retry THEN ok2 ELSE ok1
             sent == IF retry THEN <<"getBytes", "getBytesAllDrives">>
                     ELSE <<"getBytes">>
             r == [run EXCEPT !.events = @ \o sent,
                              !.responses = @ \o IF retry THEN <<ok1, ok2>>
                                                 ELSE <<ok1>>]
         IN  IF ~ok THEN Throw(r, ErrDownload)
             ELSE [r EXCEPT !.encryptedData = store[run.driveFileId].bytes]

\* 5. Decrypt, and return
Decrypt(run) ==
    IF run.status # "running" THEN run
    ELSE LET Decrypted(decryptedData) ==
                 LET r == [run EXCEPT !.events = @ \o <<"deriveKey", "decrypt">>]
                 IN  IF ~decryptedData.ok THEN Throw(r, decryptedData.error)
                     ELSE [r EXCEPT !.status = "ok",
                                    !.file = decryptedData.v,
                                    !.filename = run.fileInfo.originalName,
                                    !.policies = run.fileInfo.policies]
             Decoded(salt, iv) ==
                 IF ~salt.ok \/ ~iv.ok THEN Throw(run, "InvalidCharacterError")
                 ELSE Decrypted(decryptFile(run.encryptedData, run.humanKey,
                                            salt.v, iv.v))
         IN  Decoded(base64ToUint8Array(run.fileInfo.salt),
                     base64ToUint8Array(run.fileInfo.iv))

downloadFileFromDrive_FetchFirst(driveFileId, humanKey, auth, answers) ==
    LET start == [DlNone EXCEPT !.status = "running",
                                !.driveFileId = driveFileId,
                                !.humanKey = humanKey,
                                !.auth = auth,
                                !.observed = served[driveFileId]]
        r1 == FetchMetadata(start, answers.metaFails)
        r2 == ParseFilename(r1)
        r3 == FetchBytes(r2, answers.bytesFails)
        r4 == CheckPolicies(r3)
    IN  Decrypt(r4)

\* auth: an access token is passed; answers: how many get-metadata and
\* get-bytes requests fail
downloadFileFromDrive(driveFileId, humanKey, auth, answers) ==
    LET start == [DlNone EXCEPT !.status = "running",
                                !.driveFileId = driveFileId,
                                !.humanKey = humanKey,
                                !.auth = auth,
                                !.observed = served[driveFileId]]
        r1 == FetchMetadata(start, answers.metaFails)
        r2 == ParseFilename(r1)
        r3 == CheckPolicies(r2)
        r4 == FetchBytes(r3, answers.bytesFails)
    IN  Decrypt(r4)

(***************************************************************************)
(* The share locator: the URL, URLSearchParams and encodeURIComponent of   *)
(* the runtime, for URLs "https://host/path#fragment" of ASCII characters, *)
(* and parseShareUrl.                                                      *)
(***************************************************************************)
\* "https://" and "key"
HttpsScheme == <<104, 116, 116, 112, 115, 58, 47, 47>>
KeyParam == <<107, 101, 121>>

HexDigit(v) == IF v < 10 THEN 48 + v ELSE 65 + (v - 10)
IsHexDigit(c) == c \in 48..57 \/ c \in 65..70 \/ c \in 97..102
HexValue(c) ==
    IF c \in 48..57 THEN c - 48
    ELSE IF c \in 65..70 THEN c - 65 + 10
    ELSE c - 97 + 10

\* "%XX"
PercentEncoded(c) == <<37, HexDigit(c \div 16), HexDigit(c % 16)>>

\* the characters that encodeURIComponent leaves as they are:
\* A-Z a-z 0-9 - _ . ! ~ * ' ( )
IsUriUnreserved(c) ==
    \/ c \in 65..90
    \/ c \in 97..122
    \/ c \in 48..57
    \/ c \in {45, 95, 46, 33, 126, 42, 39, 40, 41}

RECURSIVE encodeURIComponent(_)
encodeURIComponent(s) ==
    IF Len(s) = 0 THEN <<>>
    ELSE (IF IsUriUnreserved(s[1]) THEN <<s[1]>> ELSE PercentEncoded(s[1]))
         \o encodeURIComponent(Tail(s))

\* String.prototype.trim
RECURSIVE TrimStart(_)
TrimStart(s) ==
    IF Len(s) > 0 /\ s[1] \in {9, 10, 11, 12, 13, 32} THEN TrimStart(Tail(s)) ELSE s
RECURSIVE TrimEnd(_)
TrimEnd(s) ==
    IF Len(s) > 0 /\ s[Len(s)] \in {9, 10, 11, 12, 13, 32}
    THEN TrimEnd(SubSeq(s, 1, Len(s) - 1)) ELSE s
Trim(s) == TrimEnd(TrimStart(s))

\* the URL parser percent-encodes these characters of a fragment:
\* C0 controls, space, '"', '<', '>', '`' (and what is not ASCII)
InFragmentEncodeSet(c) == c <= 32 \/ c \in {34, 60, 62, 96} \/ c >= 127
\* and of a path, in addition: '#', '?', '{', '}'
InPathEncodeSet(c) == InFragmentEncodeSet(c) \/ c \in {35, 63, 123, 125}

\* inPath: s is a path, otherwise a fragment
RECURSIVE UrlEncode(_, _)
UrlEncode(s, inPath) ==
    IF Len(s) = 0 THEN <<>>
    ELSE (IF (inPath /\ InPathEncodeSet(s[1])) \/ (~inPath /\ InFragmentEncodeSet(s[1]))
          THEN PercentEncoded(s[1]) ELSE <<s[1]>>)
         \o UrlEncode(Tail(s), inPath)

\* the input of the URL parser: leading and trailing C0 controls and spaces
\* are removed, then every tab and newline
RECURSIVE StripLeading(_)
StripLeading(s) == IF Len(s) > 0 /\ s[1] <= 32 THEN StripLeading(Tail(s)) ELSE s
RECURSIVE StripTrailing(_)
StripTrailing(s) ==
    IF Len(s) > 0 /\ s[Len(s)] <= 32
    THEN StripTrailing(SubSeq(s, 1, Len(s) - 1)) ELSE s
UrlInput(s) ==
    SelectSeq(StripTrailing(StripLeading(s)), LAMBDA c : c \notin {9, 10, 13})

\* the characters of a host name (and of its port)
IsHostChar(c) == c \in 97..122 \/ c \in 48..57 \/ c \in {45, 46, 58}

\* the first index of s that holds one of the characters cs, or Len(s) + 1
RECURSIVE FirstOf(_, _, _)
FirstOf(s, cs, i) ==
    IF i > Len(s) \/ s[i] \in cs THEN i ELSE FirstOf(s, cs, i + 1)

\* new URL(url): pathname and hash of an https URL; ok = FALSE when the
\* constructor throws (the string is no absolute URL)
NewUrl(url) ==
    LET s == UrlInput(url)
        rest == SubSeq(s, Len(HttpsScheme) + 1, Len(s))
        hostEnd == FirstOf(rest, {47, 63, 35}, 1)
        host == SubSeq(rest, 1, hostEnd - 1)
        hashAt == FirstOf(rest, {35}, hostEnd)
        pathEnd == FirstOf(SubSeq(rest, 1, hashAt - 1), {63}, hostEnd)
        path == SubSeq(rest, hostEnd, pathEnd - 1)
        fragment == SubSeq(rest, hashAt + 1, Len(rest))
    IN  IF \/ ~Occurs(s, HttpsScheme, 1)
           \/ Len(host) = 0
           \/ \E i \in 1..Len(host) : ~IsHostChar(host[i])
        THEN [ok |-> FALSE, pathname |-> <<>>, hash |-> <<>>]
        ELSE [ok |-> TRUE,
              pathname |-> IF Len(path) = 0 THEN <<47>>
                           ELSE UrlEncode(path, TRUE),
              hash |-> IF Len(fragment) = 0 THEN <<>>
                       ELSE <<35>> \o UrlEncode(fragment, FALSE)]

\* percent-decoding of form data, after '+' has become a space
RECURSIVE PercentDecode(_)
PercentDecode(s) ==
    IF Len(s) = 0 THEN <<>>
    ELSE IF s[1] = 37 /\ Len(s) >= 3 /\ IsHexDigit(s[2]) /\ IsHexDigit(s[3])
    THEN <<HexValue(s[2]) * 16 + HexValue(s[3])>> \o PercentDecode(SubSeq(s, 4, Len(s)))
    ELSE <<s[1]>> \o PercentDecode(Tail(s))

FormDecode(s) ==
    PercentDecode([i \in 1..Len(s) |-> IF s[i] = 43 THEN 32 ELSE s[i]])

\* new URLSearchParams(init): the name/value pairs, in order
SearchParams(init) ==
    LET pieces == SelectSeq(Split(init, 38), LAMBDA piece : Len(piece) > 0)
    IN  [i \in 1..Len(pieces) |->
            LET eq == FirstOf(pieces[i], {61}, 1)
            IN  [name |-> FormDecode(SubSeq(pieces[i], 1, eq - 1)),
                 value |-> FormDecode(SubSeq(pieces[i], eq + 1, Len(pieces[i])))]]

\* URLSearchParams.get(name): the first value of that name;
\* found = FALSE for null
ParamsGet(params, name) ==
    LET idx == {i \in 1..Len(params) : params[i].name = name}
    IN  IF idx = {} THEN [found |-> FALSE, value |-> <<>>]
        ELSE [found |-> TRUE,
              value |-> params[CHOOSE i \in idx : \A j \in idx : i <= j].value]

NullLocator == [isNull |-> TRUE, driveFileId |-> <<>>, key |-> <<>>]

\* strings that no builder of this client made.  Before the fragment:
\* "https://keyvault.app/f/f1", "https://keyvault.app/f/",
\* "https://keyvault.app", "keyvault.app/f/f1", "", "/f/f1", "not a url"
\* (url: it is an absolute URL; empty: its last path segment is empty).
\* Behind it: "", "#", "#key=", "#key=abcde", "#k=abcde", "#x=1&key=abcde",
\* "#key", "?key=abcde" (key: the fragment has a non-empty 'key' entry).
ForeignLocators ==
    LET bases ==
        {[s |-> <<104, 116, 116, 112, 115, 58, 47, 47, 107, 101, 121, 118, 97, 117, 108, 116, 46, 97, 112, 112, 47, 102, 47, 102, 49>>, url |-> TRUE, empty |-> FALSE],
         [s |-> <<104, 116, 116, 112, 115, 58, 47, 47, 107, 101, 121, 118, 97, 117, 108, 116, 46, 97, 112, 112, 47, 102, 47>>, url |-> TRUE, empty |-> TRUE],
         [s |-> <<104, 116, 116, 112, 115, 58, 47, 47, 107, 101, 121, 118, 97, 117, 108, 116, 46, 97, 112, 112>>, url |-> TRUE, empty |-> TRUE],
         [s |-> <<107, 101, 121, 118, 97, 117, 108, 116, 46, 97, 112, 112, 47, 102, 47, 102, 49>>, url |-> FALSE, empty |-> FALSE],
         [s |-> <<>>, url |-> FALSE, empty |-> FALSE],
         [s |-> <<47, 102, 47, 102, 49>>, url |-> FALSE, empty |-> FALSE],
         [s |-> <<110, 111, 116, 32, 97, 32, 117, 114, 108>>, url |-> FALSE, empty |-> FALSE]}
        fragments ==
        {[s |-> <<>>, key |-> FALSE],
         [s |-> <<35>>, key |-> FALSE],
         [s |-> <<35, 107, 101, 121, 61>>, key |-> FALSE],
         [s |-> <<35, 107, 101, 121, 61, 97, 98, 99, 100, 101>>, key |-> TRUE],
         [s |-> <<35, 107, 61, 97, 98, 99, 100, 101>>, key |-> FALSE],
         [s |-> <<35, 120, 61, 49, 38, 107, 101, 121, 61, 97, 98, 99, 100, 101>>, key |-> TRUE],
         [s |-> <<35, 107, 101, 121>>, key |-> FALSE],
         [s |-> <<63, 107, 101, 121, 61, 97, 98, 99, 100, 101>>, key |-> FALSE]}
    IN  {[url |-> b.s \o f.s,
          kind |-> IF ~b.url THEN "noUrl"
                   ELSE IF b.empty THEN "emptySegment"
                   ELSE IF ~f.key THEN "noKey"
                   ELSE "complete"] : b \in bases, f \in fragments}

parseShareUrl_NoKeyCheck(url) ==
    LET urlObj == NewUrl(url)
        pathParts == Split(urlObj.pathname, 47)
        driveFileId == pathParts[Len(pathParts)]
        fragment == SubSeq(urlObj.hash, 2, Len(urlObj.hash))
        key == ParamsGet(SearchParams(fragment), KeyParam)
    IN  IF ~urlObj.ok THEN NullLocator
        ELSE IF Len(driveFileId) = 0
        THEN NullLocator
        ELSE [isNull |-> FALSE, driveFileId |-> driveFileId, key |-> key.value]

parseShareUrl(url) ==
    LET urlObj == NewUrl(url)
        pathParts == Split(urlObj.pathname, 47)
        driveFileId == pathParts[Len(pathParts)]
        fragment == SubSeq(urlObj.hash, 2, Len(urlObj.hash))
        key == ParamsGet(SearchParams(fragment), KeyParam)
    IN  IF ~urlObj.ok THEN NullLocator
        ELSE IF Len(driveFileId) = 0 \/ ~key.found \/ Len(key.value) = 0
        THEN NullLocator
        ELSE [isNull |-> FALSE, driveFileId |-> driveFileId, key |-> key.value]

\* the minimum key length that the UI callers ask for
MinKeyLength == 5

\* the share URL that MyFilesCard.copyShareLink writes to the clipboard
CopyShareLinkUrl(fileId, key) ==
    Origin \o RoutePrefix \o fileId \o KeyFragment \o encodeURIComponent(Trim(key))

\* "f1", "f2", "1aB-_9"
LocatorIds == {Id1, Id2, <<49, 97, 66, 45, 95, 57>>}

\* secrets of at least five characters: the two of the uploads, "a+b c&d",
\* "p%41ss", "k=v#x?", "50%_off", "x&key=y", "abcde " and "Tr0ub4dor"
LocatorSecrets ==
    Secrets \cup
    {<<97, 43, 98, 32, 99, 38, 100>>,
     <<97, 98, 99, 100, 101, 32>>,
     <<84, 114, 48, 117, 98, 52, 100, 111, 114>>,
     <<112, 37, 52, 49, 115, 115>>,
     <<107, 61, 118, 35, 120, 63>>,
     <<53, 48, 37, 95, 111, 102, 102>>,
     <<120, 38, 107, 101, 121, 61, 121>>}

LocatorIdle ==
    [op |-> "idle", builder |-> "none", driveFileId |-> <<>>, key |-> <<>>,
     url |-> <<>>, parsed |-> NullLocator]

(***************************************************************************)
(* The state machine.                                                      *)
(***************************************************************************)
\* how many downloads of one object the model follows
MaxServed == 2
\* the bit positions of a ciphertext that the model can change
CipherBits == 2

\* the last thing that happened in the card: which handler ran ("fetched",
\* "fetchFailed", "key", "deleteStarted", "deleteSettled"), for which row,
\* with which answer of the Store, and the listing a fetch was answered with
NoEvent == [op |-> "none", id |-> <<>>, answer |-> "", listing |-> <<>>]

\* no delete of the row is in flight
NoPending == [active |-> FALSE, files |-> <<>>, answer |-> "ok"]

\* the MyFilesCard component before its first fetchFiles
CardInit ==
    [files |-> <<>>, decryptionKeys |-> [id \in DriveIds |-> <<>>],
     toast |-> "", deletingId |-> <<>>,
     pending |-> [id \in DriveIds |-> NoPending],
     last |-> NoEvent]

\* the sign-ins that the identity service answers with a token
MaxSessions == 4

\* The page before it is loaded.  A session is the number of the sign-in
\* that got it, 0 is null: accessToken and user are the provider's state,
\* stored the 'keyvault_access_token' and 'keyvault_user' items, google
\* says that the identity script has loaded, revokes counts the revoke
\* requests whose callback has not run, issued the tokens given out so far.
AuthIdle ==
    [phase |-> "unloaded", google |-> FALSE, user |-> 0, accessToken |-> 0,
     isInitialized |-> FALSE, isLoading |-> TRUE, error |-> "",
     signingIn |-> FALSE, stored |-> [accessToken |-> 0, user |-> 0],
     revokes |-> 0, issued |-> 0, last |-> "none"]

\* no attempt yet.  key is what the caller found in its input or in the
\* row, passed what it handed to downloadFileFromDrive, downloading its flag
\* (isDownloading, downloadingId), run the download it started.
UiIdle ==
    [caller |-> "none", fileId |-> <<>>, key |-> <<>>, refused |-> FALSE,
     message |-> "", downloading |-> FALSE, passed |-> <<>>, run |-> DlNone,
     shareUrl |-> <<>>]

Init ==
    /\ ui = UiIdle
    /\ session = AuthIdle
    /\ codec = CodecIdle
    /\ locator = LocatorIdle
    /\ store = [id \in DriveIds |-> NoObject]
    /\ now = 0
    /\ uploads = <<>>
    /\ dl = DlNone
    /\ served = [id \in DriveIds |-> 0]
    /\ card = CardInit
    /\ localStorage = [id \in DriveIds |-> <<>>]

\* the id the Store gives the next object
FreshId(ids) == IF Id1 \in ids /\ ~store[Id1].exists THEN Id1 ELSE Id2

\* uploadFileToDrive is called; the Store creates the object when the put
\* succeeds, also when making it public fails afterwards
Upload(ids, folderIds, answers) ==
    /\ \E id \in ids : ~store[id].exists
    /\ Len(uploads) < Cardinality(ids)
    /\ \E file \in Files, humanKey \in Secrets, policies \in UploadPolicies,
          rnd \in RandomDraws, folderId \in folderIds, putOk \in answers,
          permOk \in answers :
        LET env == [folderId |-> folderId, putOk |-> putOk, permOk |-> permOk,
                    driveFileId |-> FreshId(ids)]
            Returned(res) ==
                /\ uploads' = Append(uploads,
                        [file |-> file, humanKey |-> humanKey, policies |-> policies,
                         rnd |-> rnd, env |-> env, res |-> res])
                /\ store' = IF res.stored
                            THEN [store EXCEPT ![env.driveFileId] =
                                    [exists |-> TRUE,
                                     name |-> res.request.metadata.name,
                                     bytes |-> res.request.body,
                                     description |-> res.request.metadata.description]]
                            ELSE store
        IN  Returned(uploadFileToDrive(file, humanKey, policies, rnd, env))
    /\ UNCHANGED <<locator, codec, now, dl, served, card, localStorage, session, ui>>

\* the names of fewer than four segments that somebody else's objects have
ShortNames ==
    {Join(segs, Underscore) \o ext :
        segs \in UNION {[1..n -> ForeignSegments] : n \in 1..3},
        ext \in {<<>>, EncryptedExt}}

\* an object that no upload of this client wrote appears in the Store
ForeignPut(ids) ==
    /\ \E id \in ids : ~store[id].exists
    /\ \E name \in ShortNames \cup ExtraNames :
        store' = [store EXCEPT ![FreshId(ids)] =
                    [exists |-> TRUE, name |-> name, bytes |-> RawBytes,
                     description |-> <<>>]]
    /\ UNCHANGED <<locator, codec, now, uploads, dl, served, card, localStorage, session, ui>>

\* one bit of a stored ciphertext changes (a download runs to its end in one
\* step, so the Store and the clock move between downloads)
Tamper ==
    /\ dl.status = "none"
    /\ \E id \in DriveIds, b \in 1..CipherBits :
        /\ store[id].exists
        /\ store[id].bytes.sealed
        /\ store' = [store EXCEPT ![id].bytes.flips =
                        IF b \in @ THEN @ \ {b} ELSE @ \cup {b}]
    /\ UNCHANGED <<locator, codec, now, uploads, dl, served, card, localStorage, session, ui>>

\* time passes
Tick ==
    /\ dl.status = "none"
    /\ now < MaxTime
    /\ now' = now + 1
    /\ UNCHANGED <<locator, codec, store, uploads, dl, served, card, localStorage, session, ui>>

Download_WriteBack ==
    /\ dl.status = "none"
    /\ \E driveFileId \in DriveIds, humanKey \in Secrets, auth \in BOOLEAN,
          metaFails \in 0..2, bytesFails \in 0..2 :
        LET Returned(run) ==
                /\ dl' = run
                /\ served' = IF run.status = "ok"
                             THEN [served EXCEPT ![driveFileId] = @ + 1]
                             ELSE served
                /\ store' = IF run.status = "ok"
                            THEN [store EXCEPT ![driveFileId].bytes =
                                    [RawBytes EXCEPT !.data = run.file]]
                            ELSE store
        IN  /\ served[driveFileId] < MaxServed
            /\ Returned(downloadFileFromDrive(driveFileId, humanKey, auth,
                    [metaFails |-> metaFails, bytesFails |-> bytesFails]))
    /\ UNCHANGED <<locator, codec, now, uploads, card, localStorage, session, ui>>

\* downloadFileFromDrive is called and runs to its end; the caller awaits it
\* and starts no other download before it has handled the outcome
Download ==
    /\ dl.status = "none"
    /\ \E driveFileId \in DriveIds, humanKey \in Secrets, auth \in BOOLEAN,
          metaFails \in 0..2, bytesFails \in 0..2 :
        LET Returned(run) ==
                /\ dl' = run
                /\ served' = IF run.status = "ok"
                             THEN [served EXCEPT ![driveFileId] = @ + 1]
                             ELSE served
        IN  /\ served[driveFileId] < MaxServed
            /\ Returned(downloadFileFromDrive(driveFileId, humanKey, auth,
                    [metaFails |-> metaFails, bytesFails |-> bytesFails]))
    /\ UNCHANGED <<locator, codec, store, now, uploads, card, localStorage, session, ui>>

\* the caller has handled the outcome of the download (the finally block of
\* handleDownload)
DownloadHandled ==
    /\ dl.status # "none"
    /\ dl' = DlNone
    /\ UNCHANGED <<locator, codec, store, now, uploads, served, card, localStorage, session, ui>>

\* uploadFileToDrive builds the share URL of its result
LocatorBuildUpload ==
    /\ locator.op = "idle"
    /\ \E driveFileId \in LocatorIds, humanKey \in LocatorSecrets :
        locator' = [LocatorIdle EXCEPT !.op = "built", !.builder = "upload",
                        !.driveFileId = driveFileId, !.key = humanKey,
                        !.url = UploadShareUrl(driveFileId, humanKey)]
    /\ UNCHANGED <<codec, store, now, uploads, dl, served, card, localStorage, session, ui>>

\* MyFilesCard.copyShareLink builds the share URL for a key of the minimum
\* length
LocatorBuildCopy ==
    /\ locator.op = "idle"
    /\ \E fileId \in LocatorIds, key \in LocatorSecrets :
        /\ Len(Trim(key)) >= MinKeyLength
        /\ locator' = [LocatorIdle EXCEPT !.op = "built", !.builder = "copyShareLink",
                        !.driveFileId = fileId, !.key = key,
                        !.url = CopyShareLinkUrl(fileId, key)]
    /\ UNCHANGED <<codec, store, now, uploads, dl, served, card, localStorage, session, ui>>

\* somebody hands the client a string that is to be a share URL
LocatorForeign ==
    /\ locator.op = "idle"
    /\ \E input \in ForeignLocators :
        locator' = [LocatorIdle EXCEPT !.op = "built", !.builder = input.kind,
                        !.url = input.url]
    /\ UNCHANGED <<codec, store, now, uploads, dl, served, card, localStorage, session, ui>>

\* parseShareUrl is called on the URL
LocatorParse ==
    /\ locator.op = "built"
    /\ locator' = [locator EXCEPT !.op = "parsed", !.parsed = parseShareUrl(locator.url)]
    /\ UNCHANGED <<codec, store, now, uploads, dl, served, card, localStorage, session, ui>>

(***************************************************************************)
(* getUserFiles, deleteFile and the MyFilesCard component.  The query of   *)
(* the list request is evaluated by the Store; files is the listing it     *)
(* answers with: <<[id, name], ...>>.                                      *)
(***************************************************************************)
NullItem == [isNull |-> TRUE, driveFileId |-> <<>>, filename |-> <<>>,
             policies |-> Undefined]

getUserFiles_StopAtNull(files) ==
    LET Item(file, info) ==
            IF info.isNull THEN NullItem
            ELSE [isNull |-> FALSE, driveFileId |-> file.id,
                  filename |-> info.originalName, policies |-> info.policies]
        mapped == [i \in 1..Len(files) |->
                      Item(files[i], decodeMetadataFromFilename(files[i].name))]
        bad == {i \in 1..Len(files) : mapped[i].isNull}
    IN  SubSeq(mapped, 1, IF bad = {} THEN Len(files)
                          ELSE (CHOOSE i \in bad : \A j \in bad : i <= j) - 1)

\* the mapped and filtered listing (after the status check of the response)
getUserFiles(files) ==
    LET Item(file, info) ==
            IF info.isNull THEN NullItem
            ELSE [isNull |-> FALSE, driveFileId |-> file.id,
                  filename |-> info.originalName, policies |-> info.policies]
        mapped == [i \in 1..Len(files) |->
                      Item(files[i], decodeMetadataFromFilename(files[i].name))]
    IN  SelectSeq(mapped, LAMBDA f : ~f.isNull)

\* answer: what the Store answers the delete request: "ok" (deleted),
\* "rejected" (a non-success status) or "network" (no response, fetch rejects)
\* deleteFile: resolves whenever fetch resolves, whatever the status
deleteFile(answer) ==
    IF answer = "network" THEN [ok |-> FALSE, error |-> "Failed to fetch"]
    ELSE [ok |-> TRUE, error |-> ""]

\* names of objects in the user's Drive: two written by the encoder
\* ("h.txt" with {}, "a_b" with {expiresAt: 1}), "short_string", and names
\* whose policy segment is base64 of "{", is "!" (no base64), is base64 of
\* "null"
ListedNames ==
    {encodeMetadataInFilename(<<104, 46, 116, 120, 116>>, [i \in 1..SaltLen |-> 0],
                              [i \in 1..IvLen |-> i], JObj(<<>>)),
     encodeMetadataInFilename(<<97, 95, 98>>, [i \in 1..SaltLen |-> 0],
                              [i \in 1..IvLen |-> i],
                              JObj(<<[k |-> KeyExpiresAt, v |-> JNum(1)]>>)),
     <<115, 104, 111, 114, 116, 95, 115, 116, 114, 105, 110, 103>>,
     <<97, 95, 98, 95, 99, 95>> \o btoa(<<123>>) \o EncryptedExt,
     <<97, 95, 98, 95, 99, 95, 33>> \o EncryptedExt,
     <<97, 95, 98, 95, 99, 95>> \o btoa(NullLit) \o EncryptedExt}

\* an object appears in the user's Drive (the Drive has its content when
\* the card is mounted; afterwards the deletes of the card change it)
ListedPut ==
    /\ card.last.op = "none"
    /\ \E id \in DriveIds, name \in ListedNames :
        /\ ~store[id].exists
        /\ store' = [store EXCEPT ![id] =
                        [exists |-> TRUE, name |-> name, bytes |-> RawBytes,
                         description |-> <<>>]]
    /\ UNCHANGED <<locator, codec, now, uploads, dl, served, card, localStorage, session, ui>>

\* fetchFiles (on mount and on refresh): the list request is answered with
\* the existing objects (the Store orders them), or with a non-success status
FetchFiles ==
    /\ \E ok \in BOOLEAN :
        LET existing == SelectSeq(<<Id1, Id2>>, LAMBDA id : store[id].exists)
            files == [i \in 1..Len(existing) |->
                        [id |-> existing[i], name |-> store[existing[i]].name]]
        IN  card' = IF ok
                    THEN [card EXCEPT !.files = getUserFiles(files),
                                      !.decryptionKeys = localStorage,
                                      !.last = [NoEvent EXCEPT !.op = "fetched",
                                                               !.listing = files]]
                    ELSE [card EXCEPT !.last = [NoEvent EXCEPT !.op = "fetchFailed"]]
    /\ UNCHANGED <<locator, codec, store, now, uploads, dl, served, localStorage, session, ui>>

\* the ids of the rows that the card shows
Listed == {card.files[i].driveFileId : i \in 1..Len(card.files)}

\* onChange of the key input of a row (a key is pasted); the input is
\* read-only once the row has a key
KeyInput ==
    /\ \E fileId \in Listed, value \in Secrets :
        /\ card.decryptionKeys[fileId] = <<>>
        /\ LET newKeys == [card.decryptionKeys EXCEPT ![fileId] = value]
           IN  /\ card' = [card EXCEPT !.decryptionKeys = newKeys,
                                       !.last = [NoEvent EXCEPT !.op = "key",
                                                                !.id = fileId]]
               /\ localStorage' = newKeys
    /\ UNCHANGED <<locator, codec, store, now, uploads, dl, served, session, ui>>

\* handleDelete up to its await: the delete request is sent and the Store
\* answers it; the handler keeps the files of the render it was made in.
\* (One delete of a row at a time.)
DeleteStart ==
    /\ \E fileId \in Listed, answer \in {"ok", "rejected", "network"} :
        /\ ~card.pending[fileId].active
        /\ card' = [card EXCEPT !.deletingId = fileId,
                                !.pending[fileId] =
                                    [active |-> TRUE, files |-> card.files,
                                     answer |-> answer],
                                !.last = [NoEvent EXCEPT !.op = "deleteStarted",
                                                         !.id = fileId,
                                                         !.answer = answer]]
        /\ store' = IF answer = "ok" THEN [store EXCEPT ![fileId] = NoObject]
                    ELSE store
    /\ UNCHANGED <<locator, codec, now, uploads, dl, served, localStorage, session, ui>>

\* handleDelete after its await
DeleteSettled ==
    /\ \E fileId \in DriveIds :
        /\ card.pending[fileId].active
        /\ LET p == card.pending[fileId]
               Handled(res) ==
                   card' = [card EXCEPT
                       !.files = IF res.ok
                                 THEN SelectSeq(p.files,
                                        LAMBDA f : f.driveFileId # fileId)
                                 ELSE @,
                       !.toast = IF res.ok THEN "File deleted" ELSE "Failed to delete",
                       !.deletingId = <<>>,
                       !.pending[fileId] = NoPending,
                       !.last = [NoEvent EXCEPT !.op = "deleteSettled",
                                                !.id = fileId,
                                                !.answer = p.answer]]
           IN  Handled(deleteFile(p.answer))
    /\ UNCHANGED <<locator, codec, store, now, uploads, dl, served, localStorage, session, ui>>

\* the MyFilesCard component over the user's Drive
CardNext == ListedPut \/ FetchFiles \/ KeyInput \/ DeleteStart \/ DeleteSettled
SpecCard == Init /\ [][CardNext]_vars

(***************************************************************************)
(* AuthProvider and google-auth.  A handler runs up to its await in one    *)
(* step and from its await to its end in another; the state updates of one *)
(* step are one render.  The user acts on what the page shows: nothing     *)
(* while isLoading, the sign-out button when authenticated, the sign-in    *)
(* button otherwise.                                                       *)
(***************************************************************************)
\* google-auth's signOut on the state a: the revoke request is sent when a
\* token is stored, and its callback clears the storage later; without a
\* stored token the storage is cleared at once.  google.accounts of a
\* script that has not loaded throws.
googleSignOut(a) ==
    IF a.stored.accessToken # 0
    THEN IF ~a.google THEN [threw |-> TRUE, a |-> a]
         ELSE [threw |-> FALSE, a |-> [a EXCEPT !.revokes = @ + 1]]
    ELSE [threw |-> FALSE, a |-> [a EXCEPT !.stored = [accessToken |-> 0, user |-> 0]]]

\* the page is loaded: the provider mounts and its effect runs up to the
\* await of initializeGoogleAuth
AuthMount ==
    /\ session.phase = "unloaded"
    /\ session' = IF session.stored.accessToken # 0 /\ session.stored.user # 0
               THEN [session EXCEPT !.phase = "initializing", !.last = "mount",
                                 !.accessToken = session.stored.accessToken,
                                 !.user = session.stored.user]
               ELSE [session EXCEPT !.phase = "initializing", !.last = "mount"]
    /\ UNCHANGED <<codec, locator, store, now, uploads, dl, served, card, localStorage, ui>>

\* initializeGoogleAuth settles: the script has loaded and the token client
\* is made, or it throws (no client id, with the script loaded or not;
\* script not loaded)
AuthInitDone ==
    /\ session.phase = "initializing"
    /\ \E ok \in BOOLEAN, loaded \in BOOLEAN :
        /\ ok => loaded
        /\ session' = [session EXCEPT !.phase = "ready", !.last = "init",
                             !.google = loaded,
                             !.isInitialized = ok,
                             !.error = IF ok THEN @
                                       ELSE "Failed to load Google Identity Services",
                             !.isLoading = FALSE]
    /\ UNCHANGED <<codec, locator, store, now, uploads, dl, served, card, localStorage, ui>>

\* the provider's signIn up to its await of google-auth's signIn
SignIn ==
    /\ session.phase = "ready" /\ ~session.isLoading
    /\ session.accessToken = 0
    /\ session.issued < MaxSessions
    /\ session' = IF ~session.isInitialized
               THEN [session EXCEPT !.error = "Google Auth not initialized",
                                 !.last = "signInRefused"]
               ELSE [session EXCEPT !.isLoading = TRUE, !.error = "",
                                 !.signingIn = TRUE, !.last = "signInStarted"]
    /\ UNCHANGED <<codec, locator, store, now, uploads, dl, served, card, localStorage, ui>>

\* the token client's callback runs and the provider's signIn goes on:
\* the answer is a token whose user info is fetched ("ok"), an error
\* ("denied") or a token whose user info request fails ("userinfo")
SignInSettled ==
    /\ session.signingIn
    /\ \E answer \in {"ok", "denied", "userinfo"} :
        LET token == session.issued + 1
        IN  session' = IF answer = "ok"
                    THEN [session EXCEPT !.issued = token,
                                      !.stored = [accessToken |-> token, user |-> token],
                                      !.accessToken = token,
                                      !.user = token,
                                      !.isLoading = FALSE,
                                      !.signingIn = FALSE,
                                      !.last = "signedIn"]
                    ELSE [session EXCEPT !.issued = IF answer = "userinfo" THEN token ELSE @,
                                      !.error = IF answer = "denied" THEN "access_denied"
                                                ELSE "Failed to fetch user info",
                                      !.isLoading = FALSE,
                                      !.signingIn = FALSE,
                                      !.last = "signInFailed"]
    /\ UNCHANGED <<codec, locator, store, now, uploads, dl, served, card, localStorage, ui>>

\* the provider's signOut
SignOut ==
    /\ session.phase = "ready" /\ ~session.isLoading
    /\ session.accessToken # 0
    /\ LET Left(r) ==
               session' = IF r.threw THEN [session EXCEPT !.last = "signOutThrew"]
                       ELSE [r.a EXCEPT !.user = 0, !.accessToken = 0,
                                        !.last = "signedOut"]
       IN  Left(googleSignOut(session))
    /\ UNCHANGED <<codec, locator, store, now, uploads, dl, served, card, localStorage, ui>>

\* the callback of a revoke request runs: clearAuth
RevokeCallback ==
    /\ session.revokes > 0
    /\ session' = [session EXCEPT !.revokes = @ - 1,
                            !.stored = [accessToken |-> 0, user |-> 0],
                            !.last = "revoked"]
    /\ UNCHANGED <<codec, locator, store, now, uploads, dl, served, card, localStorage, ui>>

\* the page is closed or reloaded: the provider's state and the pending
\* callbacks are gone, localStorage stays
Unload ==
    /\ session.phase = "ready" /\ ~session.isLoading
    /\ session' = [AuthIdle EXCEPT !.stored = session.stored, !.issued = session.issued,
                                !.last = "unloaded"]
    /\ UNCHANGED <<codec, locator, store, now, uploads, dl, served, card, localStorage, ui>>

\* the authentication of the page over its loads
AuthNext ==
    AuthMount \/ AuthInitDone \/ SignIn \/ SignInSettled \/ SignOut
        \/ RevokeCallback \/ Unload
SpecAuth == Init /\ [][AuthNext]_vars

(***************************************************************************)
(* The UI callers of the download and of the share link, up to their first *)
(* await: what they refuse, and what they hand on.                         *)
(***************************************************************************)
DownloadPage_handleDownload_NoMinimum(fileId, decryptionKey) ==
    IF fileId = <<>> \/ decryptionKey = <<>>
    THEN [refused |-> TRUE, message |-> "Please enter the decryption key",
          passed |-> <<>>, shareUrl |-> <<>>]
    ELSE [refused |-> FALSE, message |-> "", passed |-> decryptionKey,
          shareUrl |-> <<>>]

\* DownloadPage.handleDownload
DownloadPage_handleDownload(fileId, decryptionKey) ==
    IF fileId = <<>> \/ decryptionKey = <<>>
    THEN [refused |-> TRUE, message |-> "Please enter the decryption key",
          passed |-> <<>>, shareUrl |-> <<>>]
    ELSE IF Len(decryptionKey) < MinKeyLength
    THEN [refused |-> TRUE, message |-> "Decryption key must be at least 5 characters",
          passed |-> <<>>, shareUrl |-> <<>>]
    ELSE [refused |-> FALSE, message |-> "", passed |-> decryptionKey,
          shareUrl |-> <<>>]

\* MyFilesCard.handleDownload; key is decryptionKeys[fileId], <<>> when the
\* row has none
MyFilesCard_handleDownload(fileId, key) ==
    IF key = <<>> \/ Len(Trim(key)) < MinKeyLength
    THEN [refused |-> TRUE, message |-> "Key required", passed |-> <<>>,
          shareUrl |-> <<>>]
    ELSE [refused |-> FALSE, message |-> "", passed |-> Trim(key), shareUrl |-> <<>>]

\* MyFilesCard.copyShareLink
copyShareLink(fileId, key) ==
    IF key = <<>> \/ Len(Trim(key)) < MinKeyLength
    THEN [refused |-> TRUE, message |-> "Key required", passed |-> <<>>,
          shareUrl |-> <<>>]
    ELSE [refused |-> FALSE, message |-> "Link copied!", passed |-> <<>>,
          shareUrl |-> CopyShareLinkUrl(fileId, key)]

\* the keys of the attempts: the secrets of the uploads, "", "abcd",
\* "abcde" and "abcd " (five characters, four without the space)
UiKeys ==
    Secrets \cup {<<>>, <<97, 98, 99, 100>>, <<97, 98, 99, 100, 101>>,
                  <<97, 98, 99, 100, 32>>}

\* a caller's handler runs up to its first await; a route without a file id
\* reaches the DownloadPage only
UiAttempt ==
    /\ ~ui.downloading
    /\ \E caller \in {"DownloadPage", "MyFilesCard", "copyShareLink"},
          fileId \in {<<>>, Id1}, key \in UiKeys :
        LET Begun(r) ==
                ui' = [UiIdle EXCEPT !.caller = caller, !.fileId = fileId,
                                     !.key = key, !.refused = r.refused,
                                     !.message = r.message,
                                     !.downloading =
                                         ~r.refused /\ caller # "copyShareLink",
                                     !.passed = r.passed,
                                     !.shareUrl = r.shareUrl]
        IN  /\ fileId = <<>> => caller = "DownloadPage"
            /\ Begun(CASE caller = "DownloadPage"
                             -> DownloadPage_handleDownload(fileId, key)
                        [] caller = "MyFilesCard"
                             -> MyFilesCard_handleDownload(fileId, key)
                        [] caller = "copyShareLink"
                             -> copyShareLink(fileId, key))
    /\ UNCHANGED <<codec, locator, store, now, uploads, dl, served, card, localStorage, session>>

\* the download that the handler awaits runs to its end (both callers call
\* it without an access token) and the handler's finally block clears the
\* flag
UiSettled ==
    /\ ui.downloading
    /\ served[ui.fileId] < MaxServed
    /\ \E metaFails \in 0..1, bytesFails \in 0..1 :
        LET Returned(run) ==
                /\ ui' = [ui EXCEPT !.run = run, !.downloading = FALSE,
                                    !.message = IF run.status = "ok"
                                                THEN "Download successful!"
                                                ELSE run.error]
                /\ served' = IF run.status = "ok"
                             THEN [served EXCEPT ![ui.fileId] = @ + 1]
                             ELSE served
        IN  Returned(downloadFileFromDrive(ui.fileId, ui.passed, FALSE,
                        [metaFails |-> metaFails, bytesFails |-> bytesFails]))
    /\ UNCHANGED <<codec, locator, store, now, uploads, dl, card, localStorage, session>>

\* the UI callers over one uploaded object
UiNext == Upload({Id1}, {FolderId}, {TRUE}) \/ UiAttempt \/ UiSettled
SpecUi == Init /\ [][UiNext]_vars

\* the share locator alone
LocatorNext ==
    LocatorBuildUpload \/ LocatorBuildCopy \/ LocatorForeign \/ LocatorParse
SpecLocator == Init /\ [][LocatorNext]_vars

\* the codec alone
CodecNext == CodecEncode \/ CodecForeign \/ CodecDecode
SpecCodec == Init /\ [][CodecNext]_vars

\* two uploads of this client, every Store request succeeding
UploadNext == Upload(DriveIds, {FolderId}, {TRUE})
SpecUpload == Init /\ [][UploadNext]_vars

\* one upload of this client, with a Keyvault folder or without one (the
\* lookup or the creation failed), the put and the permission request
\* succeeding or failing
UploadFaultsNext == Upload({Id1}, {FolderId, <<>>}, BOOLEAN)
SpecUploadFaults == Init /\ [][UploadFaultsNext]_vars

\* one object, written by a successful upload of this client or by somebody
\* else, is downloaded over time
Next ==
    \/ Upload({Id1}, {FolderId}, {TRUE})
    \/ ForeignPut({Id1})
    \/ Tamper
    \/ Tick
    \/ Download
    \/ DownloadHandled
Spec == Init /\ [][Next]_vars

(***************************************************************************)
(* Properties of the protocol.  dl is the run of the last download; the    *)
(* Store and the clock do not move while it is there, so store and now are *)
(* the ones the run saw.                                                   *)
(***************************************************************************)
DlPolicies == dl.fileInfo.policies

\* the run sent a get-bytes request or called the crypto functions
DlTouchedCiphertext ==
    \E i \in 1..Len(dl.events) :
        dl.events[i] \in {"getBytes", "getBytesAllDrives", "deriveKey", "decrypt"}

DlHas(event) == \E i \in 1..Len(dl.events) : dl.events[i] = event

\* the run failed on a Store request
DlStoreError == dl.error \in {ErrNotInDrive, ErrNotPublic, ErrDownload}

\* the policy admits by the rules of the policy evaluator: not expired, and
\* fewer downloads observed than maxDownloads
Admits(policies, t, observed) ==
    /\ ~(Get(policies, KeyExpiresAt).t = "num" /\ t > Get(policies, KeyExpiresAt).n)
    /\ ~(/\ Get(policies, KeyMaxDownloads).t = "num"
         /\ observed >= Get(policies, KeyMaxDownloads).n)

\* C2: two uploads of the same file with the same salt and nonce and the
\* same policy, which differ in the secret only, send the Store put requests
\* that differ in the ciphertext bytes only: name, description and parents
\* are the same.
SecretNotSentToStore ==
    \A i, j \in 1..Len(uploads) :
        (/\ uploads[i].file = uploads[j].file
         /\ uploads[i].policies = uploads[j].policies
         /\ uploads[i].res.salt = uploads[j].res.salt
         /\ uploads[i].res.iv = uploads[j].res.iv)
        => uploads[i].res.request.metadata = uploads[j].res.request.metadata

\* C3: a download, with the secret of the upload, of the object as the
\* upload stored it, at a time when the policy admits and with every Store
\* request answered, returns the bytes, the name and the policy of the
\* upload.
EndToEndRoundTrip ==
    (/\ dl.status # "none"
     /\ Len(uploads) = 1
     /\ dl.driveFileId = uploads[1].res.driveFileId
     /\ dl.humanKey = uploads[1].humanKey
     /\ store[dl.driveFileId].exists
     /\ store[dl.driveFileId].name = uploads[1].res.request.metadata.name
     /\ store[dl.driveFileId].bytes = uploads[1].res.request.body
     /\ Admits(uploads[1].policies, now, dl.observed)
     /\ ~DlStoreError)
    => /\ dl.status = "ok"
       /\ dl.file = uploads[1].file.bytes
       /\ dl.filename = uploads[1].file.name
       /\ SameJson(dl.policies, uploads[1].policies)

\* C4: when decryptFile is called on a sealed ciphertext with another secret
\* than the sealing one, or on one with a changed bit, the download returns
\* no plaintext and fails with the one decryption error.
TamperOrWrongKeyRejected ==
    (/\ DlHas("decrypt")
     /\ dl.encryptedData.sealed
     /\ \/ dl.humanKey # dl.encryptedData.key.password
        \/ dl.encryptedData.flips # {})
    => /\ dl.status = "error"
       /\ dl.error = ErrDecryption
       /\ dl.file = <<>>

\* C4 witness: decryptFile has run with the sealing secret on a ciphertext
\* with a changed bit
TamperRejectedWitness ==
    /\ DlHas("decrypt")
    /\ dl.encryptedData.sealed
    /\ dl.humanKey = dl.encryptedData.key.password
    /\ dl.encryptedData.flips # {}
    /\ dl.error = ErrDecryption

\* C5: a run whose policy check finds the file expired ends with the policy
\* error without a get-bytes request, a key derivation or a decryption; and
\* whenever a run makes one of these, the policy check came before.
PolicyBeforeDecryption ==
    /\ (/\ dl.checkedAt >= 0
        /\ CanReadProperty(DlPolicies)
        /\ PolicyExpired(DlPolicies, dl.checkedAt))
       => (dl.status = "error" /\ dl.error = ErrExpired)
    /\ dl.error = ErrExpired => (~DlTouchedCiphertext /\ dl.file = <<>>)
    /\ \A i \in 1..Len(dl.events) :
          dl.events[i] \in {"getBytes", "getBytesAllDrives", "deriveKey", "decrypt"}
          => \E j \in 1..(i - 1) : dl.events[j] = "policy"

\* C5 witness: a run denied by the policy check
PolicyDeniedWitness ==
    /\ dl.status = "error"
    /\ dl.error = ErrExpired
    /\ dl.events = <<"getMetadata", "decode", "policy">>

\* C6: the policy check denies with the expiry error exactly when expiresAt
\* is set and the time of the check is later than expiresAt.
ExpiryRule ==
    (dl.checkedAt >= 0 /\ CanReadProperty(DlPolicies))
    => ((dl.error = ErrExpired)
        <=> (/\ Get(DlPolicies, KeyExpiresAt).t = "num"
             /\ dl.checkedAt > Get(DlPolicies, KeyExpiresAt).n))

\* C7: a run that finds maxDownloads set and at least that many downloads of
\* the object already served is denied: it requests no ciphertext and
\* returns no file.
DownloadLimitRule ==
    (/\ dl.checkedAt >= 0
     /\ CanReadProperty(DlPolicies)
     /\ Get(DlPolicies, KeyMaxDownloads).t = "num"
     /\ dl.observed >= Get(DlPolicies, KeyMaxDownloads).n)
    => (dl.status = "error" /\ ~DlTouchedCiphertext)

\* C10: a name of fewer than four '_'-separated segments is decoded to null,
\* and the download fails with the invalid-file-format error without a
\* get-bytes request.
MalformedNameRejected ==
    (DlHas("decode") /\ Len(Split(dl.name, Underscore)) < 4)
    => /\ dl.fileInfo.isNull
       /\ dl.status = "error"
       /\ dl.error = ErrInvalidFormat
       /\ ~DlTouchedCiphertext

\* C10 witness: the download of an object named "short_string"
MalformedNameWitness ==
    /\ dl.name = <<115, 104, 111, 114, 116, 95, 115, 116, 114, 105, 110, 103>>
    /\ dl.error = ErrInvalidFormat
    /\ dl.events = <<"getMetadata", "decode">>

\* C8: parseShareUrl of the share URL built for an object id and a secret
\* returns that object id and that secret.
LocatorRoundTrip ==
    (locator.op = "parsed" /\ locator.builder \in {"upload", "copyShareLink"}) =>
        /\ ~locator.parsed.isNull
        /\ locator.parsed.driveFileId = locator.driveFileId
        /\ locator.parsed.key = locator.key

(***************************************************************************)
(* Properties of the MyFilesCard component.                                *)
(***************************************************************************)
\* C11: after a fetch that the Store answered with a listing, the card shows
\* exactly the objects of the listing whose name has at least four segments
\* and a policy segment that is base64 of JSON, each under its original
\* name; an object whose policy segment is no base64 or no JSON is left out
\* and the others are still shown.
MalformedSkipped ==
    card.last.op = "fetched" =>
        /\ Len(card.files) <= Len(card.last.listing)
        /\ \A i \in 1..Len(card.last.listing) :
            LET parts == Split(WithoutExt(card.last.listing[i].name), Underscore)
                n == Len(parts)
            IN  (n >= 4 /\ ParsePolicies(parts[n]).ok)
                <=> \E j \in 1..Len(card.files) :
                        /\ card.files[j].driveFileId = card.last.listing[i].id
                        /\ card.files[j].filename =
                              Join(SubSeq(parts, 1, n - 3), Underscore)

\* C11 witness: a listing of "a_b_c_!.encrypted" followed by a decodable
\* name, of which the card shows the second only
MalformedSkippedWitness ==
    /\ card.last.op = "fetched"
    /\ Len(card.last.listing) = 2
    /\ card.last.listing[1].name = <<97, 95, 98, 95, 99, 95, 33>> \o EncryptedExt
    /\ Len(card.files) = 1
    /\ card.files[1].driveFileId = Id2
    /\ card.files[1].filename = <<104, 46, 116, 120, 116>>

\* C12: parseShareUrl answers null for a string that is no URL, for a URL
\* whose last path segment is empty and for a URL whose fragment has no
\* non-empty 'key' entry; whenever it answers a pair, the object id and the
\* key are both non-empty, and it does so for a URL that has both.
InvalidLocatorRejected ==
    locator.op = "parsed" =>
        /\ locator.builder \in {"noUrl", "emptySegment", "noKey"}
              => locator.parsed.isNull
        /\ locator.builder = "complete"
              => /\ ~locator.parsed.isNull
                 /\ locator.parsed.driveFileId = Id1
                 /\ locator.parsed.key = <<97, 98, 99, 100, 101>>
        /\ ~locator.parsed.isNull
              => Len(locator.parsed.driveFileId) > 0 /\ Len(locator.parsed.key) > 0

\* C12 witness: "https://keyvault.app/f/f1#key=" has been parsed to null
InvalidLocatorWitness ==
    /\ locator.op = "parsed"
    /\ locator.builder = "noKey"
    /\ locator.url = Origin \o RoutePrefix \o Id1 \o KeyFragment
    /\ locator.parsed.isNull

(***************************************************************************)
(* Properties of the sealing.                                              *)
(***************************************************************************)
\* C13: every seal uses the 16-byte salt and the 12-byte nonce that its own
\* encryptFile call drew, and two uploads, also of the same file with the
\* same secret, whose draws of crypto.getRandomValues differ in the salt or
\* in the nonce seal under different (derived key, nonce) pairs.
FreshNoncePerSeal ==
    \A i, j \in 1..Len(uploads) :
        LET a == uploads[i].res.request.body
            b == uploads[j].res.request.body
        IN  /\ Len(a.key.salt) = SaltLen /\ Len(a.iv) = IvLen
            /\ a.key.salt = uploads[i].rnd.salt /\ a.iv = uploads[i].rnd.iv
            /\ (i # j /\ uploads[i].rnd # uploads[j].rnd)
                  => <<a.key, a.iv>> # <<b.key, b.iv>>

\* C13 witness: two uploads of the same file with the same secret and the
\* same drawn salt, which differ in the drawn nonce only
FreshNonceWitness ==
    /\ Len(uploads) = 2
    /\ uploads[1].file = uploads[2].file
    /\ uploads[1].humanKey = uploads[2].humanKey
    /\ uploads[1].rnd.salt = uploads[2].rnd.salt
    /\ uploads[1].rnd.iv # uploads[2].rnd.iv
    /\ uploads[1].res.request.body.iv # uploads[2].res.request.body.iv

(***************************************************************************)
(* Properties of the download, continued.                                  *)
(***************************************************************************)
\* C14: a run returns a file and an original name only after, in this
\* order, a successful decoding of the name, a policy check that did not
\* deny, a get-bytes request that the Store answered and a decryption that
\* authenticated the bytes under the run's secret; a run that throws
\* returns no file, no name and no policy.
OpenedOnlyAfterAdmission ==
    LET rank(e) ==
            CASE e \in {"getMetadata", "getMetadataAllDrives"} -> 1
              [] e = "decode" -> 2
              [] e = "policy" -> 3
              [] e \in {"getBytes", "getBytesAllDrives"} -> 4
              [] e = "deriveKey" -> 5
              [] e = "decrypt" -> 6
    IN  /\ dl.status = "ok"
           => /\ \A i, j \in 1..Len(dl.events) :
                    i < j => rank(dl.events[i]) <= rank(dl.events[j])
              /\ \A k \in 1..6 : \E i \in 1..Len(dl.events) : rank(dl.events[i]) = k
              /\ ~dl.fileInfo.isNull
              /\ dl.filename = dl.fileInfo.originalName
              /\ dl.checkedAt = now
              /\ ~PolicyExpired(dl.fileInfo.policies, dl.checkedAt)
              /\ dl.encryptedData = store[dl.driveFileId].bytes
              /\ dl.encryptedData.sealed
              /\ dl.encryptedData.flips = {}
              /\ dl.encryptedData.key.password = dl.humanKey
              /\ dl.file = dl.encryptedData.data
        /\ dl.status = "error"
           => dl.file = <<>> /\ dl.filename = <<>> /\ dl.policies = Undefined
        /\ dl.status \in {"none", "ok", "error"}

\* C14 witness: a run that returned "he" as "h.txt" after one failed and one
\* answered get-bytes request
OpenedWitness ==
    /\ dl.status = "ok"
    /\ dl.file = <<104, 101>>
    /\ dl.filename = <<104, 46, 116, 120, 116>>
    /\ dl.events = <<"getMetadata", "decode", "policy", "getBytes",
                     "getBytesAllDrives", "deriveKey", "decrypt">>

(***************************************************************************)
(* Properties of the MyFilesCard component, continued.                     *)
(***************************************************************************)
\* C15: when the Store answers a delete request with a non-success status,
\* handleDelete shows the failure message and not 'File deleted', and the
\* object stays in the list of the card.
StoreFailuresSurfaced ==
    (card.last.op = "deleteSettled" /\ card.last.answer = "rejected")
    => /\ card.toast = "Failed to delete"
       /\ card.last.id \in Listed

(***************************************************************************)
(* Properties of the codec, continued.                                     *)
(***************************************************************************)
\* C16: a name made by encodeMetadataInFilename is the original name, '_',
\* base64url of the salt, '_', base64url of the nonce, '_', base64url of
\* the policy as JSON, ".encrypted", where base64url is base64 with '-' for
\* '+' and '_' for '/'; no segment contains '+' or '/'.
WireFormatUrlSafe ==
    LET base64url(s) ==
            LET b == btoa(s)
            IN  [i \in 1..Len(b) |->
                    IF b[i] = 43 THEN 45 ELSE IF b[i] = 47 THEN 95 ELSE b[i]]
    IN  (codec.op = "encoded" /\ codec.src = "encoder")
        => codec.filename
             = codec.originalName \o <<Underscore>>
                 \o base64url(codec.salt) \o <<Underscore>>
                 \o base64url(codec.iv) \o <<Underscore>>
                 \o base64url(JSONstringify(codec.policies)) \o EncryptedExt

\* C17: the browser's localStorage never holds a secret under the id of its
\* object (localStorage is the 'keyvault_keys' entry, a map from object ids
\* to secrets, empty where it has no entry).
SecretNotPersistedWithId ==
    \A id \in DriveIds : localStorage[id] = <<>>

(***************************************************************************)
(* Properties of the policy check.                                         *)
(***************************************************************************)
\* C18: the policy check of a run whose name was decoded ends in deny (the
\* run throws the expiry error) or in admit (the run goes on to request the
\* bytes) and throws nothing else; a policy without expiresAt is admitted.
PolicyCheckNeverRaises ==
    DlHas("policy") =>
        /\ ~dl.fileInfo.isNull
        /\ dl.error = ErrExpired \/ DlHas("getBytes")
        /\ Get(dl.fileInfo.policies, KeyExpiresAt) = Undefined => DlHas("getBytes")

(***************************************************************************)
(* Properties of the key derivation.                                       *)
(***************************************************************************)
\* C19: a run whose decoded name carries a salt that is base64 of other
\* than 16 bytes fails without deriving a key and without attempting a
\* decryption.
SaltLengthEnforced ==
    LET salt == base64ToUint8Array(dl.fileInfo.salt)
    IN  (DlHas("decode") /\ ~dl.fileInfo.isNull /\ salt.ok /\ Len(salt.v) # SaltLen)
        => /\ dl.status = "error"
           /\ ~DlHas("deriveKey")
           /\ ~DlHas("decrypt")

(***************************************************************************)
(* Properties of the errors of the download.                               *)
(***************************************************************************)
\* C20: the error that a failed run throws names the step that failed, and
\* each of the five failures has a message of its own: the metadata was not
\* retrievable (one message with a token, one without), the name was
\* malformed, the policy check found the file expired, the bytes were not
\* retrievable, the decryption failed.  In particular the expiry message and
\* the decryption message never stand for the other cause.
FailureCausesDistinct ==
    LET last == dl.events[Len(dl.events)]
        salt == base64ToUint8Array(dl.fileInfo.salt)
        iv == base64ToUint8Array(dl.fileInfo.iv)
        atMetadata == last \in {"getMetadata", "getMetadataAllDrives"}
        atDecode == last = "decode"
        atPolicy == last = "policy" /\ CanReadProperty(dl.fileInfo.policies)
        atBytes == last \in {"getBytes", "getBytesAllDrives"}
        atDecrypt == last = "decrypt"
    IN  dl.status = "error" =>
            /\ atMetadata <=> dl.error \in {ErrNotInDrive, ErrNotPublic}
            /\ atMetadata => (dl.error = ErrNotInDrive <=> dl.auth)
            /\ atDecode <=> dl.error = ErrInvalidFormat
            /\ atPolicy <=> dl.error = ErrExpired
            /\ dl.error = ErrDownload => atBytes
            /\ (atBytes /\ salt.ok /\ iv.ok) => dl.error = ErrDownload
            /\ atDecrypt <=> dl.error = ErrDecryption
            /\ dl.error = ErrExpired
                  => PolicyExpired(dl.fileInfo.policies, dl.checkedAt)
            /\ dl.error = ErrDecryption
                  => ~AesGcmDecrypt(deriveKey(dl.humanKey, salt.v), iv.v,
                                    dl.encryptedData).ok

\* C20 witness: a run that failed on the get-bytes requests, after a policy
\* check that admitted
BytesFailureWitness ==
    /\ dl.status = "error"
    /\ dl.error = ErrDownload
    /\ dl.events = <<"getMetadata", "decode", "policy", "getBytes",
                     "getBytesAllDrives">>

(***************************************************************************)
(* Properties of the policy check, continued.                              *)
(***************************************************************************)
\* C21: a run that finds selfDestruct set on an object that was already
\* served once is denied by the policy check: it ends with an error without
\* a get-bytes request, a key derivation or a decryption.
SelfDestructRule ==
    (/\ dl.checkedAt >= 0
     /\ CanReadProperty(DlPolicies)
     /\ Get(DlPolicies, KeySelfDestruct) = JTrue
     /\ dl.observed >= 1)
    => (dl.status = "error" /\ ~DlTouchedCiphertext)

(***************************************************************************)
(* Frame of the download.                                                  *)
(***************************************************************************)
\* C22: a step in which downloadFileFromDrive runs, whether it returns or
\* throws, leaves every object of the Store as it was (existence, name,
\* bytes, description), and the run has sent get-metadata and get-bytes
\* requests only.
DownloadLeavesStore ==
    [][(dl.status = "none" /\ dl'.status # "none")
        => /\ store' = store
           /\ \A i \in 1..Len(dl'.events) :
                 dl'.events[i] \in {"getMetadata", "getMetadataAllDrives", "decode",
                                    "policy", "getBytes", "getBytesAllDrives",
                                    "deriveKey", "decrypt"}]_vars

\* C22 witness: the object has been downloaded twice with success and the
\* Store holds it as the upload wrote it
DownloadLeavesStoreWitness ==
    /\ served[Id1] = 2
    /\ dl.status = "ok"
    /\ Len(uploads) = 1
    /\ store[Id1].exists
    /\ store[Id1].name = uploads[1].res.request.metadata.name
    /\ store[Id1].bytes = uploads[1].res.request.body

(***************************************************************************)
(* Properties of the decoding of names, continued.                         *)
(***************************************************************************)
\* C23: what the decode step of a run accepts has a salt segment and a nonce
\* segment that are base64; a run never ends with the exception that atob
\* throws, and a name with another salt or nonce segment is rejected with
\* the invalid-format error before a get-bytes request.
AdversarialNameRejected ==
    /\ (DlHas("decode") /\ ~dl.fileInfo.isNull)
       => /\ base64ToUint8Array(dl.fileInfo.salt).ok
          /\ base64ToUint8Array(dl.fileInfo.iv).ok
    /\ dl.error = "InvalidCharacterError"
       => (\E i \in 1..Len(dl.events) : dl.events[i] = "decode") /\ ~DlTouchedCiphertext
    /\ dl.error # "InvalidCharacterError"

\* C24: of a name that ends with ".encrypted" the decoder takes out that
\* last occurrence only: with the rest split at '_' into at least four
\* segments of which the last is base64 of JSON, the decoder reads that
\* segment as the policy and returns the segments before the last three,
\* rejoined, as original name, with every other ".encrypted" still in them.
SuffixOnlyRemoved ==
    LET n == Len(codec.filename)
        e == Len(EncryptedExt)
        Stem(parts, k) ==
            (k >= 4 /\ ParsePolicies(parts[k]).ok)
            => /\ ~codec.info.isNull
               /\ codec.info.policies = ParsePolicies(parts[k]).v
               /\ codec.info.originalName = Join(SubSeq(parts, 1, k - 3), Underscore)
        Cut(parts) == Stem(parts, Len(parts))
    IN  (/\ codec.op = "decoded"
         /\ n >= e
         /\ SubSeq(codec.filename, n - e + 1, n) = EncryptedExt)
        => Cut(Split(SubSeq(codec.filename, 1, n - e), Underscore))

(***************************************************************************)
(* Properties of the MyFilesCard component: overlapping handlers.          *)
(***************************************************************************)
\* C25: once the deletes that were started have all completed, the last of
\* them with success, no object that the Store has deleted is in the list
\* of the card.
OverlappingDeletes ==
    (/\ card.last.op = "deleteSettled"
     /\ card.last.answer = "ok"
     /\ \A id \in DriveIds : ~card.pending[id].active)
    => \A id \in Listed : store[id].exists

(***************************************************************************)
(* Properties of the authentication.                                       *)
(***************************************************************************)
\* C26: while the provider holds the session of a sign-in or of a restore,
\* the storage holds the token and the user of that session: no callback of
\* an earlier signOut has erased them.
SignOutKeepsLaterSession ==
    session.accessToken # 0
    => (session.stored.accessToken = session.accessToken /\ session.stored.user = session.user)

\* C29: the provider's user is set exactly when its access token is set,
\* and isAuthenticated is true exactly then; the mount restores the stored
\* session exactly when both items are stored; a sign-in that fails sets
\* neither, one that succeeds sets both; a sign-out clears both.
AuthSetAndClearedAsPair ==
    LET isAuthenticated == session.user # 0 /\ session.accessToken # 0
        both == session.stored.accessToken # 0 /\ session.stored.user # 0
    IN  /\ (session.user # 0) <=> (session.accessToken # 0)
        /\ isAuthenticated <=> (session.accessToken # 0)
        /\ session.last = "mount" => (isAuthenticated <=> both)
        /\ session.last \in {"signInRefused", "signInFailed"} => ~isAuthenticated
        /\ session.last = "signedIn" => isAuthenticated
        /\ session.last \in {"signedOut", "signOutThrew"}
              => (session.user = 0 /\ session.accessToken = 0)

(***************************************************************************)
(* Properties of the upload, continued.                                    *)
(***************************************************************************)
\* C27: an upload returns a share URL, with the id of the new object,
\* exactly when the Store answered the put and then the permission request
\* with success; every other upload throws the upload error or the
\* permission error and returns no URL; having no Keyvault folder changes
\* nothing of this.
ShareUrlOnlyWhenPublic ==
    \A i \in 1..Len(uploads) :
        LET u == uploads[i]
        IN  /\ u.res.status = "ok" <=> (u.env.putOk /\ u.env.permOk)
            /\ u.res.status = "ok"
                  => /\ u.res.shareUrl # <<>>
                     /\ u.res.driveFileId = u.env.driveFileId
                     /\ store[u.res.driveFileId].exists
            /\ u.res.status # "ok"
                  => /\ u.res.shareUrl = <<>>
                     /\ u.res.error = IF u.env.putOk THEN ErrPermission ELSE ErrUpload
            /\ u.env.putOk <=> u.res.stored

\* C27 witness: an upload without a Keyvault folder that returned a share URL
ShareUrlWitness ==
    /\ Len(uploads) = 1
    /\ uploads[1].env.folderId = <<>>
    /\ uploads[1].res.status = "ok"
    /\ uploads[1].res.shareUrl = UploadShareUrl(Id1, uploads[1].humanKey)

(***************************************************************************)
(* Properties of the requests of a download.                               *)
(***************************************************************************)
\* C28: a run sends each of the four requests (get-metadata, its
\* supportsAllDrives form, get-bytes, its supportsAllDrives form) at most
\* once, and with an access token none of the supportsAllDrives forms; a
\* supportsAllDrives request directly follows the plain request of its kind,
\* which the Store answered with a non-success status; a run whose
\* supportsAllDrives request is answered with a non-success status too ends
\* there with an error.
BoundedStoreRequests ==
    LET requests == {"getMetadata", "getMetadataAllDrives", "getBytes",
                     "getBytesAllDrives"}
        n == Len(dl.events)
        at(kind) == {i \in 1..n : dl.events[i] = kind}
        response(i) ==
            dl.responses[Cardinality({j \in 1..i : dl.events[j] \in requests})]
        Retry(plain, again) ==
            \A i \in at(again) :
                /\ ~dl.auth
                /\ i > 1 /\ dl.events[i - 1] = plain
                /\ ~response(i - 1)
                /\ ~response(i) => (i = n /\ dl.status = "error")
    IN  /\ \A kind \in requests : Cardinality(at(kind)) <= 1
        /\ Len(dl.responses) = Cardinality({i \in 1..n : dl.events[i] \in requests})
        /\ Retry("getMetadata", "getMetadataAllDrives")
        /\ Retry("getBytes", "getBytesAllDrives")
        /\ \A i \in at("getMetadata") \cup at("getBytes") :
              (~response(i) /\ dl.auth) => (i = n /\ dl.status = "error")

\* C28 witness: a run without a token whose two get-metadata requests both
\* failed
BoundedRequestsWitness ==
    /\ dl.status = "error"
    /\ ~dl.auth
    /\ dl.events = <<"getMetadata", "getMetadataAllDrives">>
    /\ dl.responses = <<FALSE, FALSE>>

(***************************************************************************)
(* Properties of the UI callers.                                           *)
(***************************************************************************)
\* C30: an attempt of DownloadPage.handleDownload, MyFilesCard.handleDownload
\* or copyShareLink with a key of fewer than five characters, or without a
\* file id, is refused: its downloading flag stays false, it starts no
\* download, so that no Store request is sent, and it builds no share link;
\* every download that a caller starts gets a key of at least five
\* characters.
MinimumKeyLengthEnforced ==
    /\ (ui.caller # "none" /\ (Len(ui.key) < MinKeyLength \/ ui.fileId = <<>>))
       => /\ ui.refused
          /\ ~ui.downloading
          /\ ui.run = DlNone
          /\ ui.shareUrl = <<>>
    /\ ui.refused => (~ui.downloading /\ ui.run = DlNone /\ ui.shareUrl = <<>>)
    /\ (ui.downloading \/ ui.run # DlNone)
       => (Len(ui.passed) >= MinKeyLength /\ ui.run.humanKey \in {<<>>, ui.passed})

\* C30 witness: DownloadPage.handleDownload has refused the key "abcd" for
\* the file f1
MinimumKeyLengthWitness ==
    /\ ui.caller = "DownloadPage"
    /\ ui.fileId = Id1
    /\ ui.key = <<97, 98, 99, 100>>
    /\ ui.refused
    /\ ~ui.downloading

====
